---- MODULE Spec2Model ----
(***************************************************************************)
(* DoraDP: WhatsApp scheduling assistant.                                  *)
(*                                                                         *)
(* The module models, from the TypeScript sources,                         *)
(*   - the reminder dispatcher   (services/reminder-scheduler.ts),         *)
(*   - the rate limiter          (utils/security.ts),                      *)
(*   - the signature gate        (utils/security.ts),                      *)
(*   - the webhook route         (routes/webhook.ts),                      *)
(*   - the message orchestrator  (services/message-handler.ts).            *)
(*                                                                         *)
(* Every component has its own specification over the shared variables:    *)
(* SpecDisp, SpecRL, SpecSig, SpecHook, SpecMsg.                            *)
(***************************************************************************)
EXTENDS Integers, Sequences, FiniteSets, TLC

VARIABLES
    now,          \* Date.now(), in milliseconds
    reminders,    \* table `reminders`: id -> row (with the joined whatsapp_number)
    cyc,          \* the running processReminders() invocations: cycle -> frame
    transmitted,  \* reminder id -> number of reminder messages delivered to WhatsApp
    rateLimitStore, \* the Map of security.ts: key -> [count, firstRequest]
    rlLast,       \* the last checkRateLimit call and what it returned
    obs,          \* observer: per key, the window the calls fall in and the calls made in it
    probe,        \* observer: one interval of RATE_LIMIT_WINDOW_MS and the requests allowed in it
    secretCfg,    \* env.whatsappAppSecret (NoValue: not configured)
    sigLast,      \* the last run of whatsappSignatureMiddleware and how it ended
    hookLast,     \* the last webhook request and the response it got
    inflight,     \* message -> handleIncomingMessage calls started and not yet picked up
    flows,        \* the running handleIncomingMessage calls: flow -> frame
    users,        \* table `users`: whatsapp_number -> row
    calendar,     \* the Google Calendar events: google event id -> event
    eventsLog     \* table `events_log`: id -> row

dispVars == <<reminders, cyc, transmitted>>
rlVars   == <<rateLimitStore, rlLast, obs, probe>>
cfgVars  == <<secretCfg>>
sigVars  == <<sigLast>>
hookVars == <<hookLast, inflight>>
msgVars  == <<flows, users, calendar, eventsLog>>
\* What a step of one component leaves alone.
notDisp  == <<rlVars, cfgVars, sigVars, hookVars, msgVars>>
notRL    == <<dispVars, cfgVars, sigVars, hookVars, msgVars>>
notSig   == <<now, dispVars, rlVars, cfgVars, hookVars, msgVars>>
notHook  == <<now, dispVars, rlLast, obs, probe, cfgVars, sigVars, msgVars>>
notFlow  == <<now, cyc, transmitted, rlVars, cfgVars, sigVars, hookLast>>
vars     == <<now, reminders, cyc, transmitted, rateLimitStore, rlLast, obs, probe,
             secretCfg, sigLast, hookLast, inflight, flows, users, calendar, eventsLog>>

(***************************************************************************)
(* Generic helpers                                                         *)
(***************************************************************************)
NoValue == "null"

\* All orderings of the finite set S.
Perms(S) ==
    {f \in [1..Cardinality(S) -> S] : \A i, j \in 1..Cardinality(S) : f[i] = f[j] => i = j}

\* The clock moves forward to a later instant of S.
Tick(S) == \E t \in S : t > now /\ now' = t

(***************************************************************************)
(* Reminder dispatcher                                                     *)
(***************************************************************************)
ReminderIds == {"r1", "r2"}
Cycles      == {"c1", "c2"}
Numbers     == {"5511"}
MaxDispTime == 2
DispInstants == 0..MaxDispTime

\* `10 * 60 * 1000`: a reminder fires ten minutes before its event.
REMINDER_LEAD_MS == 600000

\* A row of `reminders` with the whatsapp_number of its user joined in.
ReminderRow(number, eventId, start, fire, msgId) ==
    [sent |-> FALSE, reminder_time |-> fire, event_datetime |-> start,
     google_event_id |-> eventId, whatsapp_number |-> number, msg |-> msgId]

ReminderRows ==
    {ReminderRow(n, NoValue, t + REMINDER_LEAD_MS, t, NoValue) :
        n \in Numbers \cup {NoValue}, t \in DispInstants}

\* A cycle's frame: where it is, the rows it read, and what it did in this run
\* (marked: markReminderAsSent returned success; sentTo: message delivered;
\* skipped: the loop body ended at a `continue`).
IdleFrame ==
    [pc |-> "idle", list |-> <<>>, idx |-> 1, marked |-> {}, sentTo |-> {}, skipped |-> {}]

\* .eq('sent', false).lte('reminder_time', now).order('reminder_time', ascending):
\* every ordering of the due unsent rows that is ascending in reminder_time.
getPendingReminders(rows, t) ==
    LET due == {r \in DOMAIN rows : ~rows[r].sent /\ rows[r].reminder_time <= t}
    IN  {s \in Perms(due) :
            \A i, j \in 1..Cardinality(due) :
                i < j => rows[s[i]].reminder_time <= rows[s[j]].reminder_time}

\* update({ sent: true }).eq('id', reminderId): the row, if it is there, becomes
\* sent; a row already sent, or no row, is no error.  dbOk = FALSE is a storage error.
markReminderAsSent(rows, id, dbOk) ==
    IF dbOk
    THEN [success |-> TRUE,
          rows |-> [r \in DOMAIN rows |-> IF r = id THEN [rows[r] EXCEPT !.sent = TRUE]
                                                    ELSE rows[r]]]
    ELSE [success |-> FALSE, rows |-> rows]

\* `if (!reminder.whatsapp_number) continue`
HasRecipient(row) == row.whatsapp_number # NoValue

ProceedToSend_Always(markResult) == TRUE

\* `if (!markResult.success) continue`
ProceedToSend(markResult) == markResult.success

\* The loop is left after the first reminder.
Advance_EndsCycle(f) == [f EXCEPT !.pc = "idle", !.list = <<>>, !.idx = 1]

\* The frame after the loop body for list[idx] ended: next element, or the end.
Advance(f) ==
    IF f.idx >= Len(f.list) THEN [f EXCEPT !.pc = "idle", !.list = <<>>, !.idx = 1]
                            ELSE [f EXCEPT !.pc = "loop", !.idx = f.idx + 1]

\* cron fires: a new processReminders() reads the due reminders.
StartCycle(c) ==
    /\ cyc[c].pc = "idle"
    /\ \E dbOk \in BOOLEAN :
          IF ~dbOk
          THEN cyc' = [cyc EXCEPT ![c] = IdleFrame]
          ELSE \E s \in getPendingReminders(reminders, now) :
                  cyc' = [cyc EXCEPT ![c] =
                            IF Len(s) = 0 THEN IdleFrame
                            ELSE [IdleFrame EXCEPT
                                    !.pc = "loop",
                                    !.list = [i \in 1..Len(s) |->
                                                [id |-> s[i], row |-> reminders[s[i]]]]]]
    /\ UNCHANGED <<now, reminders, transmitted, notDisp>>

\* The row as the cycle read it (a snapshot taken by getPendingReminders).
Snapshot(c) == cyc[c].list[cyc[c].idx]

\* Loop body, up to the await of markReminderAsSent.
LoopMark(c) ==
    /\ cyc[c].pc = "loop"
    /\ LET item == Snapshot(c) IN
       IF ~HasRecipient(item.row)
       THEN /\ cyc' = [cyc EXCEPT ![c] =
                        Advance([cyc[c] EXCEPT !.skipped = @ \cup {item.id}])]
            /\ UNCHANGED reminders
       ELSE \E dbOk \in BOOLEAN :
               LET res == markReminderAsSent(reminders, item.id, dbOk)
                   f   == IF res.success
                          THEN [cyc[c] EXCEPT !.marked = @ \cup {item.id}]
                          ELSE cyc[c]
               IN
               /\ reminders' = res.rows
               /\ cyc' = [cyc EXCEPT ![c] =
                            IF ProceedToSend(res)
                            THEN [f EXCEPT !.pc = "send"]
                            ELSE Advance([f EXCEPT !.skipped = @ \cup {item.id}])]
    /\ UNCHANGED <<now, transmitted, notDisp>>

\* await sendTextMessage(...): the message is delivered, or the call fails.
LoopSend(c) ==
    /\ cyc[c].pc = "send"
    /\ LET item == Snapshot(c) IN
       \E delivered \in BOOLEAN :
          /\ transmitted' = IF delivered
                            THEN [transmitted EXCEPT ![item.id] = @ + 1]
                            ELSE transmitted
          /\ cyc' = [cyc EXCEPT ![c] =
                        Advance(IF delivered
                                THEN [cyc[c] EXCEPT !.sentTo = cyc[c].sentTo \cup {item.id}]
                                ELSE cyc[c])]
    /\ UNCHANGED <<now, reminders, notDisp>>

\* The process is restarted: every running cycle is lost.
Restart ==
    /\ \E c \in Cycles : cyc[c].pc # "idle"
    /\ cyc' = [c \in Cycles |-> IdleFrame]
    /\ UNCHANGED <<now, reminders, transmitted, notDisp>>

DispTick == Tick(DispInstants) /\ UNCHANGED <<dispVars, notDisp>>

(***************************************************************************)
(* Rate limiter (utils/security.ts)                                        *)
(***************************************************************************)
RATE_LIMIT_WINDOW_MS    == 60000
RATE_LIMIT_MAX_REQUESTS == 30

WindowExpired_Never(store, key, t) == key \notin DOMAIN store

\* `!entry || now - entry.firstRequest > RATE_LIMIT_WINDOW_MS`
WindowExpired(store, key, t) ==
    key \notin DOMAIN store \/ t - store[key].firstRequest > RATE_LIMIT_WINDOW_MS

\* rateLimitStore.set(key, value)
MapSet(store, key, value) ==
    [k \in DOMAIN store \cup {key} |-> IF k = key THEN value ELSE store[k]]

CeilingReached_Off(entry) == entry.count > RATE_LIMIT_MAX_REQUESTS

\* `entry.count >= RATE_LIMIT_MAX_REQUESTS`
CeilingReached(entry) == entry.count >= RATE_LIMIT_MAX_REQUESTS

\* checkRateLimit(key) at time t: the result and the store it leaves.
checkRateLimit(store, key, t) ==
    IF WindowExpired(store, key, t)
    THEN [allowed |-> TRUE, remaining |-> RATE_LIMIT_MAX_REQUESTS - 1,
          store |-> MapSet(store, key, [count |-> 1, firstRequest |-> t])]
    ELSE IF CeilingReached(store[key])
    THEN [allowed |-> FALSE, remaining |-> 0, store |-> store]
    ELSE [allowed |-> TRUE,
          remaining |-> RATE_LIMIT_MAX_REQUESTS - (store[key].count + 1),
          store |-> [store EXCEPT ![key].count = @ + 1]]

\* The sweep also deletes an entry whose window ends at this very instant.
cleanupRateLimitStore_AtWindowEnd(store, t) == [k \in {x \in DOMAIN store : t - store[x].firstRequest < RATE_LIMIT_WINDOW_MS} |-> store[k]]

\* cleanupRateLimitStore(): the entries whose window has elapsed are deleted.
cleanupRateLimitStore(store, t) ==
    [k \in {x \in DOMAIN store : ~(t - store[x].firstRequest > RATE_LIMIT_WINDOW_MS)}
        |-> store[k]]

\* The instants the limiter is exercised at: the borders of the first three windows.
RLInstants ==
    {0, RATE_LIMIT_WINDOW_MS - 1, RATE_LIMIT_WINDOW_MS, RATE_LIMIT_WINDOW_MS + 1,
     2 * RATE_LIMIT_WINDOW_MS, 2 * RATE_LIMIT_WINDOW_MS + 1, 2 * RATE_LIMIT_WINDOW_MS + 2}

RLKeys == {"10.0.0.1", "whatsapp:5511"}

\* The calls made on a key in one window are cut off here: past the ceiling on the
\* first key, and after a few calls on the other one.
MaxCallsPerWindow == 32
MaxOtherCalls     == 2
CallBudget(key) == IF key = "10.0.0.1" THEN MaxCallsPerWindow ELSE MaxOtherCalls

NoCall == [op |-> "none", key |-> NoValue, allowed |-> TRUE, remaining |-> 0]
NoObs  == [start |-> -1, calls |-> 0, prevFull |-> FALSE]
NoProbe == [active |-> FALSE, key |-> NoValue, start |-> 0, count |-> 0, anchored |-> FALSE]

\* The observer's window of a key: it opens with the first call on the key, and
\* with the first call made more than RATE_LIMIT_WINDOW_MS after it opened.
ObsNewWindow(o, t) == o.start < 0 \/ t - o.start > RATE_LIMIT_WINDOW_MS

ObsCall(o, t) ==
    IF ObsNewWindow(o, t)
    THEN [start |-> t, calls |-> 1, prevFull |-> o.calls > RATE_LIMIT_MAX_REQUESTS]
                          ELSE [o EXCEPT !.calls = @ + 1]

\* The probe counts the allowed requests of its key made in [start, start + window].
ProbeCount(p, key, t, allowed) ==
    IF p.active /\ p.key = key /\ allowed /\ t - p.start <= RATE_LIMIT_WINDOW_MS
    THEN [p EXCEPT !.count = @ + 1] ELSE p

\* A request with rate-limit key `key` arrives.
CheckRateLimit(key) ==
    /\ ObsNewWindow(obs[key], now) \/ obs[key].calls < CallBudget(key)
    /\ LET res == checkRateLimit(rateLimitStore, key, now) IN
       /\ rateLimitStore' = res.store
       /\ rlLast' = [op |-> "check", key |-> key, allowed |-> res.allowed,
                     remaining |-> res.remaining]
       /\ obs' = [obs EXCEPT ![key] = ObsCall(obs[key], now)]
       /\ probe' = ProbeCount(probe, key, now, res.allowed)
    /\ UNCHANGED <<now, notRL>>

\* setInterval(cleanupRateLimitStore, ...) fires.
Sweep ==
    /\ rateLimitStore' = cleanupRateLimitStore(rateLimitStore, now)
    /\ rlLast' = [NoCall EXCEPT !.op = "sweep"]
    /\ UNCHANGED <<now, obs, probe, notRL>>

RLTick ==
    /\ Tick(RLInstants)
    /\ rlLast' = [NoCall EXCEPT !.op = "tick"]
    /\ UNCHANGED <<rateLimitStore, obs, probe, notRL>>

\* The observer starts watching the interval that begins now.
StartProbe(key) ==
    /\ ~probe.active
    /\ probe' = [active |-> TRUE, key |-> key, start |-> now, count |-> 0,
                 anchored |-> WindowExpired(rateLimitStore, key, now)]
    /\ UNCHANGED <<now, rateLimitStore, rlLast, obs, notRL>>

InitRL ==
    /\ rateLimitStore = << >>
    /\ rlLast = NoCall
    /\ obs = [k \in RLKeys |-> NoObs]
    /\ probe = NoProbe

(***************************************************************************)
(* Signature gate (utils/security.ts)                                      *)
(*                                                                         *)
(* A string is a sequence of symbols: "P" stands for the seven characters  *)
(* `sha256=`, every other symbol for one hexadecimal digit.                *)
(***************************************************************************)
SigSymbols == {"P", "a", "b"}
HexDigits  == {"a", "b"}
\* The modelled digest has DigestLen digits; a claimed signature at most MaxSigLen symbols.
DigestLen == 2
MaxSigLen == 3
Payloads  == {"p1", "p2"}
Secrets   == {"s1"}

\* The header is absent (`undefined`).
NoSignature == <<"undefined">>

Strings(n) == UNION {[1..k -> SigSymbols] : k \in 0..n}

\* Buffer.from(s).length
RECURSIVE ByteLength(_)
ByteLength(s) ==
    IF s = << >> THEN 0 ELSE (IF Head(s) = "P" THEN 7 ELSE 1) + ByteLength(Tail(s))

\* s.replace('sha256=', ''): the first occurrence, wherever it is, is removed.
ReplaceSha256(s) ==
    LET at == {i \in 1..Len(s) : s[i] = "P"} IN
    IF at = {} THEN s
    ELSE LET i == CHOOSE x \in at : \A y \in at : x <= y
         IN  SubSeq(s, 1, i - 1) \o SubSeq(s, i + 1, Len(s))

\* createHmac('sha256', secret).update(payload).digest('hex'): DigestLen digits that
\* depend on the secret and on the payload.
HmacHex(secret, payload) ==
    [i \in 1..DigestLen |->
        IF i = 1 THEN (IF payload = "p1" THEN "a" ELSE "b")
                 ELSE (IF secret = "s1" THEN "a" ELSE "b")]

\* crypto.timingSafeEqual(a, b): throws a RangeError when the byte lengths differ.
timingSafeEqual(a, b) ==
    IF ByteLength(a) # ByteLength(b) THEN [threw |-> TRUE, value |-> FALSE]
                                     ELSE [threw |-> FALSE, value |-> a = b]

validateWhatsAppSignature_SigFirst(secret, payload, signature) ==
    IF signature = NoSignature \/ signature = << >> THEN [threw |-> FALSE, value |-> FALSE]
    ELSE IF secret = NoValue THEN [threw |-> FALSE, value |-> TRUE]
    ELSE timingSafeEqual(ReplaceSha256(signature), HmacHex(secret, payload))

\* validateWhatsAppSignature(payload, signature) with env.whatsappAppSecret = secret.
validateWhatsAppSignature(secret, payload, signature) ==
    IF secret = NoValue THEN [threw |-> FALSE, value |-> TRUE]
    ELSE IF signature = NoSignature \/ signature = << >> THEN [threw |-> FALSE, value |-> FALSE]
    ELSE timingSafeEqual(ReplaceSha256(signature), HmacHex(secret, payload))

\* whatsappSignatureMiddleware: "next", "401", or "throw" (the exception leaves it).
whatsappSignatureMiddleware(secret, method, payload, signature) ==
    IF method # "POST" THEN "next"
    ELSE LET v == validateWhatsAppSignature(secret, payload, signature) IN
         IF v.threw THEN "throw" ELSE IF ~v.value THEN "401" ELSE "next"

NoSigRun == [method |-> NoValue, payload |-> NoValue, signature |-> NoSignature,
             threw |-> FALSE, value |-> FALSE, outcome |-> NoValue]

\* A request reaches the signature middleware.
SignatureGate(method, payload, signature) ==
    /\ LET v == validateWhatsAppSignature(secretCfg, payload, signature) IN
       sigLast' = [method |-> method, payload |-> payload, signature |-> signature,
                   threw |-> v.threw, value |-> v.value,
                   outcome |-> whatsappSignatureMiddleware(secretCfg, method, payload,
                                                           signature)]
    /\ UNCHANGED notSig

\* The claimed signature is the HMAC of the payload, with or without its prefix.
SignatureMatches(secret, payload, signature) ==
    /\ signature # NoSignature
    /\ \/ signature = HmacHex(secret, payload)
       \/ signature = <<"P">> \o HmacHex(secret, payload)

(***************************************************************************)
(* Webhook route (routes/webhook.ts) behind its two middlewares            *)
(***************************************************************************)
Ips     == {"10.0.0.1"}
Senders == {"5511"}
VerifyToken == "t1"

\* `whatsapp:${whatsappNumber}`
WaKey(number) == "whatsapp:" \o number

\* JSON.stringify(req.body): the text the signature is computed over.
JsonStringify(body) == body.text

rateLimitMiddleware_AlwaysNext(store, ip, t) ==
    LET r == checkRateLimit(store, ip, t) IN
    [next |-> TRUE, remaining |-> r.remaining, store |-> r.store]

\* rateLimitMiddleware: the key is the request's IP; `next` is whether next() is
\* called (otherwise the response is 429); X-RateLimit-Remaining is set either way.
rateLimitMiddleware(store, ip, t) ==
    LET r == checkRateLimit(store, ip, t) IN
    [next |-> r.allowed, remaining |-> r.remaining, store |-> r.store]

\* checkWhatsAppRateLimit(number)
checkWhatsAppRateLimit(store, number, t) == checkRateLimit(store, WaKey(number), t)

\* verifyWebhook(mode, token, challenge).valid
verifyWebhook(mode, token) == mode = "subscribe" /\ token = VerifyToken

\* The messages the POST route iterates over: those of the changes that carry no
\* statuses, in order.
RECURSIVE MessagesOf(_)
MessagesOf(changes) ==
    IF changes = << >> THEN << >>
    ELSE (IF Head(changes).statuses THEN << >> ELSE Head(changes).messages)
         \o MessagesOf(Tail(changes))

\* `if (!checkWhatsAppRateLimit(message.from)) continue`
HandsOver(senderAllowed) == senderAllowed

\* The loop over the messages: each is checked against its sender's key and is
\* handed to handleIncomingMessage or dropped.
RECURSIVE DispatchMessages(_, _, _)
DispatchMessages(msgs, store, t) ==
    IF msgs = << >> THEN [store |-> store, decisions |-> << >>]
    ELSE LET r    == checkWhatsAppRateLimit(store, Head(msgs).from, t)
             rest == DispatchMessages(Tail(msgs), r.store, t)
         IN  [store |-> rest.store,
              decisions |-> <<[msg |-> Head(msgs), allowed |-> r.allowed,
                               handed |-> HandsOver(r.allowed)]>> \o rest.decisions]

\* router.post('/'): 200 is sent first; a payload of another object is ignored.
PostRoute(body, store, t) ==
    IF ~body.object THEN [store |-> store, decisions |-> << >>]
    ELSE DispatchMessages(MessagesOf(body.changes), store, t)

\* Bag of messages: how many times each was handed over.
Count(bag, m) == IF m \in DOMAIN bag THEN bag[m] ELSE 0
BagPut(bag, m) == [x \in DOMAIN bag \cup {m} |-> IF x = m THEN Count(bag, m) + 1 ELSE bag[x]]

RECURSIVE HandOver(_, _)
HandOver(bag, decisions) ==
    IF decisions = << >> THEN bag
    ELSE HandOver(IF Head(decisions).handed THEN BagPut(bag, Head(decisions).msg) ELSE bag,
                  Tail(decisions))

NoRequest == [method |-> NoValue, status |-> 0, remaining |-> 0, ipAllowed |-> TRUE,
              sigMatches |-> TRUE, decisions |-> << >>]

\* One request to /webhook runs through rateLimitMiddleware, then
\* whatsappSignatureMiddleware, then its route.  An exception that leaves a
\* middleware is answered 500 by the application's error handler.
WebhookRequest(req) ==
    LET rl  == rateLimitMiddleware(rateLimitStore, req.ip, now)
        sg  == whatsappSignatureMiddleware(secretCfg, req.method,
                                           JsonStringify(req.body), req.signature)
        rt  == PostRoute(req.body, rl.store, now)
        seen == [method |-> req.method, status |-> 0, remaining |-> rl.remaining,
                 ipAllowed |-> checkRateLimit(rateLimitStore, req.ip, now).allowed,
                 sigMatches |-> SignatureMatches(secretCfg, JsonStringify(req.body),
                                                 req.signature),
                 decisions |-> << >>]
    IN
    /\ IF ~rl.next
       THEN /\ hookLast' = [seen EXCEPT !.status = 429]
            /\ rateLimitStore' = rl.store
            /\ UNCHANGED inflight
       ELSE IF sg # "next"
       THEN /\ hookLast' = [seen EXCEPT !.status = IF sg = "401" THEN 401 ELSE 500]
            /\ rateLimitStore' = rl.store
            /\ UNCHANGED inflight
       ELSE IF req.method = "GET"
       THEN /\ hookLast' = [seen EXCEPT
                              !.status = IF verifyWebhook(req.mode, req.token)
                                         THEN 200 ELSE 403]
            /\ rateLimitStore' = rl.store
            /\ UNCHANGED inflight
       ELSE /\ hookLast' = [seen EXCEPT !.status = 200, !.decisions = rt.decisions]
            /\ rateLimitStore' = rt.store
            /\ inflight' = HandOver(inflight, rt.decisions)
    /\ UNCHANGED notHook

\* The requests the gate is exercised with.
\* `words`: which of the words the bulk-cancel patterns look for the text holds.
Msg1 == [id |-> "wamid.1", from |-> "5511", type |-> "text", words |-> {}]
Msg2 == [id |-> "wamid.2", from |-> "5511", type |-> "text", words |-> {}]

NotWhatsApp  == [text |-> "p2", object |-> FALSE, changes |-> << >>]
StatusesOnly == [text |-> "p2", object |-> TRUE,
                 changes |-> <<[statuses |-> TRUE, messages |-> << >>]>>]
OneMessage   == [text |-> "p1", object |-> TRUE,
                 changes |-> <<[statuses |-> FALSE, messages |-> <<Msg1>>]>>]
TwoMessages  == [text |-> "p1", object |-> TRUE,
                 changes |-> <<[statuses |-> TRUE, messages |-> << >>],
                               [statuses |-> FALSE, messages |-> <<Msg1, Msg2>>]>>]
HookBodies == {NotWhatsApp, StatusesOnly, OneMessage, TwoMessages}

\* The signature a genuine sender computes, and claimed signatures that are not
\* it: absent, wrong with the right length, too short.
Genuine(body) == <<"P">> \o HmacHex("s1", JsonStringify(body))
Forged == {NoSignature, <<"P">> \o [i \in 1..DigestLen |-> "b"], <<"P", "a">>}

PostRequest(ip, body, signature) ==
    [method |-> "POST", ip |-> ip, signature |-> signature, body |-> body,
     mode |-> NoValue, token |-> NoValue]

GetRequest(ip, mode, token) ==
    [method |-> "GET", ip |-> ip, signature |-> NoSignature, body |-> NotWhatsApp,
     mode |-> mode, token |-> token]

HookRequests ==
    {PostRequest(ip, b, Genuine(b)) : ip \in Ips, b \in HookBodies}
    \cup {PostRequest(ip, OneMessage, sg) : ip \in Ips, sg \in Forged}
    \cup {GetRequest(ip, "subscribe", token) : ip \in Ips, token \in {VerifyToken, "guess"}}
    \cup {GetRequest(ip, "other", VerifyToken) : ip \in Ips}

(***************************************************************************)
(* Wall-clock time.  Instants are milliseconds since the epoch; dates are   *)
(* day numbers since the epoch.  America/Sao_Paulo is three hours behind   *)
(* UTC all year.                                                           *)
(***************************************************************************)
MINUTE_MS == 60 * 1000
HOUR_MS   == 60 * MINUTE_MS
DAY_MS    == 24 * HOUR_MS
\* `const spOffset = -3`
SP_OFFSET == -3

\* Date.UTC(year, month - 1, day, hours, minutes, 0, 0); hours beyond 23 carry over.
DateUTC(day, hours, minutes) == day * DAY_MS + hours * HOUR_MS + minutes * MINUTE_MS

\* Intl.DateTimeFormat(..., {timeZone: 'America/Sao_Paulo'}).formatToParts(instant):
\* seconds and milliseconds are not among the parts.
SpParts(t) ==
    LET local == t + SP_OFFSET * HOUR_MS IN
    [day     |-> local \div DAY_MS,
     hours   |-> (local % DAY_MS) \div HOUR_MS,
     minutes |-> (local % HOUR_MS) \div MINUTE_MS]

\* spFormatter.format(instant): the calendar date in Sao Paulo.
SpDate(t) == SpParts(t).day

\* new Date(todayStr + 'T00:00:00-03:00')
StartOfTodaySP(t) == DateUTC(SpDate(t), 3, 0)

\* Lines 396-441: the new start of an event from its current start and the
\* fragments the resolver supplied (an empty tuple is null).
Recompose(currentStart, new_date, new_time) ==
    LET parts   == SpParts(currentStart)
        day     == IF new_date # << >> THEN new_date[1] ELSE parts.day
        hours   == IF new_time # << >> THEN new_time[1] ELSE parts.hours
        minutes == IF new_time # << >> THEN new_time[2] ELSE parts.minutes
    IN  DateUTC(day, hours - SP_OFFSET, minutes)

(***************************************************************************)
(* Message orchestrator (services/message-handler.ts)                      *)
(*                                                                         *)
(* A flow is one call of handleIncomingMessage.  Its replies are the       *)
(* messages it sent to the sender, in order.                               *)
(***************************************************************************)
FlowIds  == {"f1", "f2"}
EventIds == {"g1", "g2"}
LogIds   == {"e1", "e2"}

NoUser == [number |-> NoValue, access |-> FALSE, refresh |-> FALSE,
           onboarding_completed |-> FALSE]
\* The draft of processScheduling before the extractor answered.
NoDraft == [data_inicio |-> 0, all_day |-> FALSE]

\* What the resolver answered (identifyEventToModify); an empty tuple is null.
\* `asked` tells a failed call from no call.
NoResolution == [asked |-> FALSE, success |-> FALSE, google_event_id |-> NoValue,
                 new_date |-> << >>, new_time |-> << >>, confidence |-> "none"]
ResolverFailure == [NoResolution EXCEPT !.asked = TRUE]

IdleFlow == [pc |-> "idle", msg |-> NoValue, user |-> NoUser, isNewUser |-> FALSE,
             isAudio |-> FALSE, replies |-> << >>, classifierFailed |-> FALSE,
             draft |-> NoDraft, list |-> << >>, res |-> NoResolution,
             target |-> NoValue, newStart |-> 0, idx |-> 1, canceled |-> << >>,
             extractError |-> NoValue]

\* updateGoogleTokens stores the access and the refresh token together.
UserRows ==
    {[access |-> g, refresh |-> g, onboarding_completed |-> o] : g, o \in BOOLEAN}

\* The instants of the orchestrator's clock and the starts the extractor returns.
\* 09:00 and 09:55 of day 1 in Sao Paulo; 10:00 of day 1 and of day 2.
MsgInstants == {DateUTC(1, 12, 0), DateUTC(1, 12, 55)}
EventStarts == {DateUTC(1, 13, 0), DateUTC(2, 13, 0)}

\* What the classifier answers; "outro" stands for any intent the switch does not name.
Intents == {"ver_agenda", "ajuda", "saudacao", "fora_do_escopo", "agendamento",
            "alterar", "cancelar", "outro"}

BagSize(bag) ==
    LET RECURSIVE Sum(_)
        Sum(S) == IF S = {} THEN 0
                  ELSE LET x == CHOOSE y \in S : TRUE IN bag[x] + Sum(S \ {x})
    IN  Sum(DOMAIN bag)

BagTake(bag, m) ==
    [x \in {y \in DOMAIN bag : y # m \/ bag[y] > 1} |-> IF x = m THEN bag[m] - 1 ELSE bag[x]]

Reply(f, kind) == [f EXCEPT !.replies = Append(@, kind)]
\* The call returns: its locals are gone, what it sent stays sent.
Finish(f) ==
    [f EXCEPT !.pc = "done", !.draft = NoDraft, !.list = << >>,
              !.res = [@ EXCEPT !.new_date = << >>, !.new_time = << >>],
              !.target = NoValue, !.newStart = 0, !.idx = 1]

\* handleIncomingMessage(message) starts: markAsRead is awaited.
FlowBegin(f, m) ==
    /\ flows[f].pc = "idle"
    /\ Count(inflight, m) > 0
    /\ inflight' = BagTake(inflight, m)
    /\ flows' = [flows EXCEPT ![f] = [IdleFlow EXCEPT !.pc = "identify", !.msg = m]]
    /\ UNCHANGED <<notFlow, reminders, users, calendar, eventsLog>>

\* getUserByWhatsAppNumber(number): the row, or no success (not found, or an error).
getUserByWhatsAppNumber(table, number, dbOk) ==
    IF dbOk /\ number \in DOMAIN table
    THEN [success |-> TRUE,
          data |-> [number |-> number, access |-> table[number].access,
                    refresh |-> table[number].refresh,
                    onboarding_completed |-> table[number].onboarding_completed]]
    ELSE [success |-> FALSE, data |-> NoUser]

\* The insert goes through although the number already has a row.
createUser_NoUnique(table, number, dbOk) == [success |-> dbOk, data |-> [number |-> number, access |-> FALSE, refresh |-> FALSE, onboarding_completed |-> FALSE], table |-> IF dbOk THEN [n \in DOMAIN table \cup {number} |-> IF n = number THEN [access |-> FALSE, refresh |-> FALSE, onboarding_completed |-> FALSE] ELSE table[n]] ELSE table]

\* createUser(number): the insert fails on an error and on the UNIQUE whatsapp_number.
createUser(table, number, dbOk) ==
    IF dbOk /\ number \notin DOMAIN table
    THEN [success |-> TRUE,
          data |-> [number |-> number, access |-> FALSE, refresh |-> FALSE,
                    onboarding_completed |-> FALSE],
          table |-> [n \in DOMAIN table \cup {number} |->
                        IF n = number
                        THEN [access |-> FALSE, refresh |-> FALSE,
                              onboarding_completed |-> FALSE]
                        ELSE table[n]]]
    ELSE [success |-> FALSE, data |-> NoUser, table |-> table]

\* Lines 48-67: look the sender up.
FlowIdentify(f) ==
    /\ flows[f].pc = "identify"
    /\ \E dbOk \in BOOLEAN :
          LET r == getUserByWhatsAppNumber(users, flows[f].msg.from, dbOk) IN
          flows' = [flows EXCEPT ![f] =
                      IF r.success THEN [@ EXCEPT !.pc = "route", !.user = r.data]
                                   ELSE [@ EXCEPT !.pc = "create"]]
    /\ UNCHANGED <<notFlow, reminders, inflight, users, calendar, eventsLog>>

\* Lines 53-64: the sender was not found: create the account.
FlowCreateUser(f) ==
    /\ flows[f].pc = "create"
    /\ \E dbOk \in BOOLEAN :
          LET r == createUser(users, flows[f].msg.from, dbOk) IN
          /\ users' = r.table
          /\ flows' = [flows EXCEPT ![f] =
                         IF r.success
                         THEN [@ EXCEPT !.pc = "route", !.user = r.data, !.isNewUser = TRUE]
                         ELSE Finish(Reply(@, "error_register"))]
    /\ UNCHANGED <<notFlow, reminders, inflight, calendar, eventsLog>>

\* The error leaves handleIncomingMessage and the request is answered again.
FlowThrow_Unhandled(f) == flows[f].pc \notin {"idle", "done"} /\ flows' = [flows EXCEPT ![f] = Finish(@)] /\ hookLast' = [hookLast EXCEPT !.status = 500] /\ UNCHANGED <<now, cyc, transmitted, rlVars, cfgVars, sigVars, reminders, inflight, users, calendar, eventsLog>>

\* Lines 192-198: an exception anywhere in the try block is caught, the sender
\* gets the generic apology, and the promise resolves.
FlowThrow(f) ==
    /\ flows[f].pc \notin {"idle", "done"}
    /\ flows' = [flows EXCEPT ![f] = Finish(Reply(@, "error_unexpected"))]
    /\ UNCHANGED <<notFlow, reminders, inflight, users, calendar, eventsLog>>

\* Lines 69-88: the onboarding gate.  TRUE when the flow stops there.
OnboardingHalts(f) ==
    (f.isNewUser \/ ~f.user.onboarding_completed) /\ ~f.user.access

AfterOnboarding(f) ==
    LET g == IF (f.isNewUser \/ ~f.user.onboarding_completed) /\ f.isNewUser
             THEN Reply(f, "welcome") ELSE f
    IN  IF OnboardingHalts(f) THEN Finish(Reply(g, "connect_google")) ELSE g

\* handleViewAgenda: read-only.
handleViewAgenda(f, listOk) ==
    IF ~f.user.access \/ ~f.user.refresh THEN Finish(Reply(f, "connect_google_link"))
    ELSE IF ~listOk THEN Finish(Reply(f, "error_agenda"))
    ELSE Finish(Reply(f, "agenda"))

\* A classifier failure ends the message with the generic error.
RouteIntent_Abort(f, classifyOk, intent, listOk) ==
    IF ~classifyOk
    THEN Finish(Reply([f EXCEPT !.classifierFailed = TRUE], "error_process"))
    ELSE CASE intent = "ver_agenda"     -> handleViewAgenda(f, listOk)
           [] intent = "ajuda"          -> Finish(Reply(f, "help"))
           [] intent = "saudacao"       -> Finish(Reply(f, "greeting"))
           [] intent = "fora_do_escopo" -> Finish(Reply(f, "out_of_scope"))
           [] intent = "alterar"        -> [f EXCEPT !.pc = "alter"]
           [] intent = "cancelar"       -> [f EXCEPT !.pc = "cancel"]
           [] OTHER                     -> [f EXCEPT !.pc = "schedule"]

\* Lines 132-192: the intent switch.  A classifier failure, "agendamento" and any
\* unnamed intent go to processScheduling.
RouteIntent(f, classifyOk, intent, listOk) ==
    IF ~classifyOk THEN [f EXCEPT !.pc = "schedule", !.classifierFailed = TRUE]
    ELSE CASE intent = "ver_agenda"     -> handleViewAgenda(f, listOk)
           [] intent = "ajuda"          -> Finish(Reply(f, "help"))
           [] intent = "saudacao"       -> Finish(Reply(f, "greeting"))
           [] intent = "fora_do_escopo" -> Finish(Reply(f, "out_of_scope"))
           [] intent = "alterar"        -> [f EXCEPT !.pc = "alter"]
           [] intent = "cancelar"       -> [f EXCEPT !.pc = "cancel"]
           [] OTHER                     -> [f EXCEPT !.pc = "schedule"]

\* The apology is sent and the flow goes on without a text.
ObtainText_GoesOn(f, downloadOk, transcribeOk) == IF f.msg.type # "audio" THEN f ELSE IF ~downloadOk THEN Reply(f, "error_download") ELSE IF ~transcribeOk THEN Reply(f, "error_transcribe") ELSE [f EXCEPT !.isAudio = TRUE]

\* Lines 90-130: the text of the message; audio is downloaded and transcribed.
ObtainText(f, downloadOk, transcribeOk) ==
    IF f.msg.type = "audio"
    THEN IF ~downloadOk THEN Finish(Reply(f, "error_download"))
         ELSE IF ~transcribeOk THEN Finish(Reply(f, "error_transcribe"))
         ELSE [f EXCEPT !.isAudio = TRUE]
    ELSE IF f.msg.type = "text" THEN f
    ELSE Finish(Reply(f, "unsupported"))

\* The outcomes of a call: success or failure where the call is made.
Outcomes(called) == IF called THEN BOOLEAN ELSE {TRUE}

\* Lines 69-192 for an identified sender.
FlowRoute(f) ==
    /\ flows[f].pc = "route"
    /\ \E downloadOk, transcribeOk \in Outcomes(flows[f].msg.type = "audio"),
          classifyOk \in BOOLEAN, intent \in Intents :
       \E listOk \in Outcomes(classifyOk /\ intent = "ver_agenda") :
          LET a == AfterOnboarding(flows[f])
              b == IF a.pc = "done" THEN a ELSE ObtainText(a, downloadOk, transcribeOk)
              c == IF b.pc = "done" THEN b ELSE RouteIntent(b, classifyOk, intent, listOk)
          IN  flows' = [flows EXCEPT ![f] = c]
    /\ UNCHANGED <<notFlow, reminders, inflight, users, calendar, eventsLog>>

\* The first identifier of ids that table does not use, NoValue when all are used.
FreeId(ids, table) ==
    IF ids \subseteq DOMAIN table THEN NoValue
    ELSE CHOOSE x \in ids \ DOMAIN table : TRUE

Insert(table, id, row) == [x \in DOMAIN table \cup {id} |-> IF x = id THEN row ELSE table[x]]

\* The reminder no longer depends on the draft being timed.
WantsReminder_IgnoreAllDay(googleEventId, draft, t) ==
    /\ googleEventId # NoValue
    /\ draft.data_inicio - REMINDER_LEAD_MS > t

\* `googleEventId && !event.all_day` and `reminderTime > new Date()`
WantsReminder(googleEventId, draft, t) ==
    /\ googleEventId # NoValue
    /\ ~draft.all_day
    /\ draft.data_inicio - REMINDER_LEAD_MS > t

\* The flow goes on without a start.
StopsForDate_Never(extractOk) == FALSE

\* `!extractResult.success || !extractResult.data`: no start instant was resolved.
StopsForDate(extractOk) == ~extractOk

\* extractEventFromText answers an event, or fails: the model found no date
\* (openai.ts 131-136) or the call threw (139-145).
ExtractAnswers == {"event", "no_date", "upstream_error"}

\* processScheduling(user, text, isAudio, messageId), lines 205-234: the
\* credentials and the extractor.
FlowExtract(f) ==
    /\ flows[f].pc = "schedule"
    /\ LET fl == flows[f] IN
       IF ~fl.user.access \/ ~fl.user.refresh
       THEN flows' = [flows EXCEPT ![f] = Finish(Reply(fl, "connect_google_link"))]
       ELSE
       \E answer \in ExtractAnswers :
       \E draft \in IF answer = "event" THEN [data_inicio : EventStarts, all_day : BOOLEAN]
                                        ELSE {NoDraft} :
          LET extractOk == answer = "event"
              g == [fl EXCEPT !.extractError = IF extractOk THEN NoValue ELSE answer]
          IN
          flows' = [flows EXCEPT ![f] =
                      IF StopsForDate(extractOk) THEN Finish(Reply(g, "date_request"))
                      ELSE [g EXCEPT !.pc = "schedule_write", !.draft = draft]]
    /\ UNCHANGED <<notFlow, inflight, users, calendar, eventsLog, reminders>>

\* Every row is written as synced.
LogRow_AlwaysSynced(number, googleEventId, data_inicio, msgId) == [user |-> number, google_event_id |-> googleEventId, data_inicio |-> data_inicio, status |-> "synced_google", msg |-> msgId]

\* Lines 253-263: the row logEvent inserts; `status: googleEventId ? 'synced_google' : 'created'`.
LogRow(number, googleEventId, data_inicio, msgId) ==
    [user |-> number, google_event_id |-> googleEventId, data_inicio |-> data_inicio,
     status |-> IF googleEventId # NoValue THEN "synced_google" ELSE "created",
     msg |-> msgId]

\* processScheduling, lines 236-286: the calendar event, the log row, the reminder
\* and the confirmation.
FlowSchedule(f) ==
    /\ flows[f].pc = "schedule_write"
    /\ LET fl == flows[f]
           draft == fl.draft
       IN
       \E calendarOk, logOk \in BOOLEAN :
       \E reminderOk \in Outcomes(calendarOk /\ WantsReminder("g", draft, now)) :
          LET gid == IF calendarOk THEN FreeId(EventIds, calendar) ELSE NoValue
              lid == IF logOk THEN FreeId(LogIds, eventsLog) ELSE NoValue
              rid == IF reminderOk /\ WantsReminder(gid, draft, now)
                     THEN FreeId(ReminderIds, reminders) ELSE NoValue
          IN
          /\ calendar' =
                IF gid = NoValue THEN calendar
                ELSE Insert(calendar, gid,
                            [owner |-> fl.user.number, start |-> draft.data_inicio,
                             all_day |-> draft.all_day, deleted |-> FALSE,
                             msg |-> fl.msg.id])
          /\ eventsLog' =
                IF lid = NoValue THEN eventsLog
                ELSE Insert(eventsLog, lid,
                            LogRow(fl.user.number, gid, draft.data_inicio, fl.msg.id))
          /\ reminders' =
                IF rid # NoValue
                THEN Insert(reminders, rid,
                            ReminderRow(fl.user.number, gid, draft.data_inicio,
                                        draft.data_inicio - REMINDER_LEAD_MS, fl.msg.id))
                ELSE reminders
          /\ flows' = [flows EXCEPT ![f] = Finish(Reply(fl, "confirmation"))]
    /\ UNCHANGED <<notFlow, inflight, users>>

(***************************************************************************)
(* Looking events up and changing them                                     *)
(***************************************************************************)
\* `limit: number = 10`
RECENT_EVENTS_LIMIT == 10

\* The sequences of at most k elements of S in ascending data_inicio; rows with the
\* same data_inicio come in any order.
RECURSIVE AscendingPrefixes(_, _, _)
AscendingPrefixes(table, S, k) ==
    IF S = {} \/ k = 0 THEN {<< >>}
    ELSE UNION {{<<[id |-> x, data_inicio |-> table[x].data_inicio,
                    google_event_id |-> table[x].google_event_id]>> \o rest :
                    rest \in AscendingPrefixes(table, S \ {x}, k - 1)} :
                x \in {y \in S : \A z \in S : table[y].data_inicio <= table[z].data_inicio}}

\* getUserRecentEvents(userId): the possible answers.
getUserRecentEvents(table, number, t, dbOk) ==
    IF ~dbOk THEN {[success |-> FALSE, data |-> << >>]}
    ELSE {[success |-> TRUE, data |-> rows] :
            rows \in AscendingPrefixes(
                        table,
                        {e \in DOMAIN table :
                            /\ table[e].user = number
                            /\ table[e].google_event_id # NoValue
                            /\ table[e].data_inicio >= StartOfTodaySP(t)},
                        RECENT_EVENTS_LIMIT)}

\* The fragments the resolver may supply.
NewDates == {2}
NewTimes == {<<9, 5>>}
\* A reference the resolver made up: no event carries it.
UnlistedEvent == "g0"

\* identifyEventToModify(text, events): the answers of a successful call.  The
\* google_event_id is the matched row's, or whatever the model answered when it
\* matched no row of the list.
ResolverAnswers(events) ==
    [asked : {TRUE}, success : {TRUE},
     google_event_id : {events[i].google_event_id : i \in 1..Len(events)}
                          \cup {NoValue, UnlistedEvent},
     new_date : {<< >>} \cup {<<d>> : d \in NewDates},
     new_time : {<< >>} \cup NewTimes,
     confidence : {"high", "low", "none"}]

\* Only an answer of confidence 'none' or without a reference is clarified.
NeedsClarification_OnlyNone(res) ==
    res.confidence = "none" \/ res.google_event_id = NoValue

\* `confidence === 'none' || confidence === 'low' || !google_event_id`
NeedsClarification(res) ==
    res.confidence = "none" \/ res.confidence = "low" \/ res.google_event_id = NoValue

\* calendar.events.get / calendar.events.update: fails for an unknown or deleted event.
updateCalendarEvent(cal, eventId, data_inicio, apiOk) ==
    IF apiOk /\ eventId \in DOMAIN cal /\ ~cal[eventId].deleted
    THEN [success |-> TRUE,
          calendar |-> [cal EXCEPT ![eventId].start = data_inicio,
                                   ![eventId].all_day = FALSE]]
    ELSE [success |-> FALSE, calendar |-> cal]

\* calendar.events.delete
deleteCalendarEvent(cal, eventId, apiOk) ==
    IF apiOk /\ eventId \in DOMAIN cal /\ ~cal[eventId].deleted
    THEN [success |-> TRUE, calendar |-> [cal EXCEPT ![eventId].deleted = TRUE]]
    ELSE [success |-> FALSE, calendar |-> cal]

\* The reschedule adds a row for the new instants and leaves the old row.
updateReminderByGoogleEventId_InsertNew(rows, googleEventId, event_datetime, reminder_time, dbOk) ==
    LET id == FreeId(ReminderIds, rows) IN
    [success |-> dbOk,
     rows |-> IF ~dbOk \/ id = NoValue THEN rows
              ELSE Insert(rows, id, ReminderRow(NoValue, googleEventId, event_datetime,
                                                reminder_time, NoValue))]

\* The reschedule moves the event instant and leaves the fire instant.
updateReminderByGoogleEventId_KeepsFire(rows, googleEventId, event_datetime, reminder_time, dbOk) == [success |-> dbOk, rows |-> IF ~dbOk THEN rows ELSE [r \in DOMAIN rows |-> IF rows[r].google_event_id = googleEventId /\ ~rows[r].sent THEN [rows[r] EXCEPT !.event_datetime = event_datetime] ELSE rows[r]]]

\* The update reaches the reminders already sent as well.
updateReminderByGoogleEventId_AnyRow(rows, googleEventId, event_datetime, reminder_time, dbOk) == [success |-> dbOk, rows |-> IF ~dbOk THEN rows ELSE [r \in DOMAIN rows |-> IF rows[r].google_event_id = googleEventId THEN [rows[r] EXCEPT !.event_datetime = event_datetime, !.reminder_time = reminder_time] ELSE rows[r]]]

\* update(updates).eq('google_event_id', id).eq('sent', false)
updateReminderByGoogleEventId(rows, googleEventId, event_datetime, reminder_time, dbOk) ==
    IF ~dbOk THEN [success |-> FALSE, rows |-> rows]
    ELSE [success |-> TRUE,
          rows |-> [r \in DOMAIN rows |->
                      IF rows[r].google_event_id = googleEventId /\ ~rows[r].sent
                      THEN [rows[r] EXCEPT !.event_datetime = event_datetime,
                                           !.reminder_time = reminder_time]
                      ELSE rows[r]]]

\* delete().eq('google_event_id', id)
deleteRemindersByGoogleEventId(rows, googleEventId, dbOk) ==
    IF ~dbOk THEN [success |-> FALSE, rows |-> rows]
    ELSE [success |-> TRUE,
          rows |-> [r \in {x \in DOMAIN rows : rows[x].google_event_id # googleEventId}
                      |-> rows[r]]]

\* The handlers no longer ask for the tokens.
HasCredentials_Always(user) == TRUE

HasCredentials(user) == user.access /\ user.refresh

\* The row of the fetched list that carries the reference, << >> when none does.
FindEvent(events, googleEventId) ==
    LET hits == {i \in 1..Len(events) : events[i].google_event_id = googleEventId}
    IN  IF hits = {} THEN << >>
        ELSE <<events[CHOOSE i \in hits : \A j \in hits : i <= j]>>

(***************************************************************************)
(* handleAlterarEvento                                                     *)
(***************************************************************************)
\* Lines 330-449: credentials, the upcoming events, the resolver, the new start.
FlowAlterResolve(f) ==
    /\ flows[f].pc = "alter"
    /\ LET fl == flows[f] IN
       IF ~HasCredentials(fl.user)
       THEN flows' = [flows EXCEPT ![f] = Finish(Reply(fl, "connect_google_link"))]
       ELSE
       \E dbOk \in BOOLEAN :
       \E fetched \in getUserRecentEvents(eventsLog, fl.user.number, now, dbOk) :
          IF ~fetched.success \/ fetched.data = << >>
          THEN flows' = [flows EXCEPT ![f] = Finish(Reply(fl, "no_events"))]
          ELSE
          \E resolverOk \in BOOLEAN :
          \E res \in IF resolverOk THEN ResolverAnswers(fetched.data) ELSE {ResolverFailure} :
             LET g  == [fl EXCEPT !.list = fetched.data, !.res = res]
                 currentEvent == FindEvent(fetched.data, res.google_event_id)
             IN
             flows' = [flows EXCEPT ![f] =
                IF ~res.success THEN Finish(Reply(g, "error_process"))
                ELSE IF NeedsClarification(res) THEN Finish(Reply(g, "candidates"))
                ELSE IF (res.new_date = << >> /\ res.new_time = << >>) \/ currentEvent = << >>
                THEN Finish(Reply(g, "which_date"))
                ELSE [g EXCEPT !.pc = "alter_update",
                               !.target = res.google_event_id,
                               !.newStart = Recompose(currentEvent[1].data_inicio,
                                                      res.new_date, res.new_time)]]
    /\ UNCHANGED <<notFlow, inflight, users, calendar, eventsLog, reminders>>

\* Lines 451-467: the calendar update.
FlowAlterUpdate(f) ==
    /\ flows[f].pc = "alter_update"
    /\ \E apiOk \in BOOLEAN :
          LET r == updateCalendarEvent(calendar, flows[f].target, flows[f].newStart, apiOk)
          IN  /\ calendar' = r.calendar
              /\ flows' = [flows EXCEPT ![f] =
                             IF r.success THEN [@ EXCEPT !.pc = "alter_reminder"]
                             ELSE Finish(Reply(@, "error_alter"))]
    /\ UNCHANGED <<notFlow, inflight, users, eventsLog, reminders>>

\* `reminderTime > new Date()`: the reminder is moved; otherwise it is deleted.
MovesReminder(newStart, t) == newStart - REMINDER_LEAD_MS > t

\* Lines 469-498: the reminder follows the event; the outcome of the store call is
\* not looked at.
FlowAlterReminder(f) ==
    /\ flows[f].pc = "alter_reminder"
    /\ \E dbOk \in BOOLEAN :
          LET fl == flows[f]
              r  == IF MovesReminder(fl.newStart, now)
                    THEN updateReminderByGoogleEventId(reminders, fl.target, fl.newStart,
                                                       fl.newStart - REMINDER_LEAD_MS, dbOk)
                    ELSE deleteRemindersByGoogleEventId(reminders, fl.target, dbOk)
          IN  /\ reminders' = r.rows
              /\ flows' = [flows EXCEPT ![f] = Finish(Reply(fl, "altered"))]
    /\ UNCHANGED <<notFlow, inflight, users, calendar, eventsLog>>

(***************************************************************************)
(* handleCancelarEvento                                                    *)
(***************************************************************************)
\* /\b(todos?|tudo)\b/, /\bhoje\b/ and /\bamanh[aã]\b/ on the lower-cased text.
isBatchCancel(msg) == msg.words \cap {"todo", "todos", "tudo"} # {}
isToday(msg)       == "hoje" \in msg.words
isTomorrow(msg)    == "amanha" \in msg.words

\* Lines 541-555: the date the bulk cancel is about.
TargetDate(msg, t) == IF isTomorrow(msg) THEN SpDate(t + DAY_MS) ELSE SpDate(t)

\* Only the first event of the target date is kept.
EventsToCancel_FirstOnly(events, targetDate) ==
    LET OnTarget(e) == SpDate(e.data_inicio) = targetDate /\ e.google_event_id # NoValue
        all == SelectSeq(events, OnTarget)
    IN  IF all = << >> THEN << >> ELSE <<all[1]>>

\* Lines 557-562: the fetched events of the target date that carry a reference.
EventsToCancel(events, targetDate) ==
    LET OnTarget(e) == SpDate(e.data_inicio) = targetDate /\ e.google_event_id # NoValue
    IN  SelectSeq(events, OnTarget)

\* Lines 509-643: credentials, the upcoming events, the bulk pattern, the resolver.
FlowCancelResolve(f) ==
    /\ flows[f].pc = "cancel"
    /\ LET fl == flows[f] IN
       IF ~HasCredentials(fl.user)
       THEN flows' = [flows EXCEPT ![f] = Finish(Reply(fl, "connect_google_link"))]
       ELSE
       \E dbOk \in BOOLEAN :
       \E fetched \in getUserRecentEvents(eventsLog, fl.user.number, now, dbOk) :
          IF ~fetched.success \/ fetched.data = << >>
          THEN flows' = [flows EXCEPT ![f] = Finish(Reply(fl, "no_events"))]
          ELSE IF isBatchCancel(fl.msg) /\ (isToday(fl.msg) \/ isTomorrow(fl.msg))
          THEN LET eventsToCancel == EventsToCancel(fetched.data, TargetDate(fl.msg, now))
               IN  flows' = [flows EXCEPT ![f] =
                      IF eventsToCancel = << >>
                      THEN Finish(Reply([fl EXCEPT !.list = fetched.data], "none_that_day"))
                      ELSE [fl EXCEPT !.pc = "bulk_delete", !.list = eventsToCancel,
                                      !.idx = 1, !.canceled = << >>]]
          ELSE
          \E resolverOk \in BOOLEAN :
          \E res \in IF resolverOk
                     THEN {a \in ResolverAnswers(fetched.data) :
                              a.new_date = << >> /\ a.new_time = << >>}
                     ELSE {ResolverFailure} :
             LET g == [fl EXCEPT !.list = fetched.data, !.res = res] IN
             flows' = [flows EXCEPT ![f] =
                IF ~res.success THEN Finish(Reply(g, "error_process"))
                ELSE IF NeedsClarification(res) THEN Finish(Reply(g, "candidates"))
                ELSE [g EXCEPT !.pc = "cancel_delete", !.target = res.google_event_id]]
    /\ UNCHANGED <<notFlow, inflight, users, calendar, eventsLog, reminders>>

\* Lines 645-662: the calendar deletion.
FlowCancelDelete(f) ==
    /\ flows[f].pc = "cancel_delete"
    /\ \E apiOk \in BOOLEAN :
          LET r == deleteCalendarEvent(calendar, flows[f].target, apiOk) IN
          /\ calendar' = r.calendar
          /\ flows' = [flows EXCEPT ![f] =
                         IF r.success THEN [@ EXCEPT !.pc = "cancel_reminder"]
                         ELSE Finish(Reply(@, "error_cancel"))]
    /\ UNCHANGED <<notFlow, inflight, users, eventsLog, reminders>>

\* Lines 664-671: the reminders of the event are deleted; the outcome of the store
\* call is not looked at.
FlowCancelReminder(f) ==
    /\ flows[f].pc = "cancel_reminder"
    /\ \E dbOk \in BOOLEAN :
          /\ reminders' = deleteRemindersByGoogleEventId(reminders, flows[f].target, dbOk).rows
          /\ flows' = [flows EXCEPT ![f] = Finish(Reply(@, "canceled"))]
    /\ UNCHANGED <<notFlow, inflight, users, calendar, eventsLog>>

\* The loop does not move on to the next event.
BulkAdvance_Stays(fl) == fl

\* The loop of lines 576-591 moves on; after the last event the reply of lines
\* 593-599 reports Len(canceled) events and names them.
BulkAdvance(fl) ==
    IF fl.idx + 1 > Len(fl.list)
    THEN Finish(Reply([fl EXCEPT !.idx = @ + 1], "bulk_canceled"))
    ELSE [fl EXCEPT !.idx = @ + 1]

\* `if (deleteResult.success)`: a failed deletion is passed over.
CountsAsCanceled(deleteResult) == deleteResult.success

\* Lines 576-584: the calendar deletion of the next event of the day.
FlowBulkDelete(f) ==
    /\ flows[f].pc = "bulk_delete"
    /\ \E apiOk \in BOOLEAN :
          LET fl == flows[f]
              r  == deleteCalendarEvent(calendar, fl.list[fl.idx].google_event_id, apiOk)
          IN  /\ calendar' = r.calendar
              /\ flows' = [flows EXCEPT ![f] =
                             IF CountsAsCanceled(r) THEN [fl EXCEPT !.pc = "bulk_reminder"]
                             ELSE BulkAdvance(fl)]
    /\ UNCHANGED <<notFlow, inflight, users, eventsLog, reminders>>

\* Lines 585-589: the reminders of a deleted event are deleted and it is counted.
FlowBulkReminder(f) ==
    /\ flows[f].pc = "bulk_reminder"
    /\ \E dbOk \in BOOLEAN :
          LET fl == flows[f]
              ev == fl.list[fl.idx]
          IN  /\ reminders' =
                    deleteRemindersByGoogleEventId(reminders, ev.google_event_id, dbOk).rows
              /\ flows' = [flows EXCEPT ![f] =
                             BulkAdvance([fl EXCEPT !.pc = "bulk_delete",
                                                    !.canceled = Append(@, ev.id)])]
    /\ UNCHANGED <<notFlow, inflight, users, calendar, eventsLog>>

\* The deliveries the orchestrator is exercised with: a text, an audio and an image
\* message of one sender, each genuine; Meta may deliver a message more than once.
MsgAudio == [id |-> "wamid.3", from |-> "5511", type |-> "audio", words |-> {}]
MsgImage == [id |-> "wamid.4", from |-> "5511", type |-> "image", words |-> {}]
\* "ajuda": a help request, which needs no Google credentials.
MsgHelp == [id |-> "wamid.7", from |-> "5511", type |-> "text", words |-> {"ajuda"}]
\* The first message of a second sender, who has no account.
MsgOther == [id |-> "wamid.8", from |-> "5522", type |-> "text", words |-> {"oi"}]
\* "cancelar tudo de hoje" and "cancelar todos de amanha"
MsgBulkToday    == [id |-> "wamid.5", from |-> "5511", type |-> "text",
                    words |-> {"tudo", "hoje"}]
MsgBulkTomorrow == [id |-> "wamid.6", from |-> "5511", type |-> "text",
                    words |-> {"todos", "amanha"}]
MaxDeliveries == 2

Delivery(m) ==
    [text |-> "p1", object |-> TRUE,
     changes |-> <<[statuses |-> FALSE, messages |-> <<m>>]>>]

Deliver(m) ==
    /\ BagSize(inflight) + Cardinality({f \in FlowIds : flows[f].pc # "idle"})
          < MaxDeliveries
    /\ \E ip \in Ips :
          WebhookRequest(PostRequest(ip, Delivery(m), Genuine(Delivery(m))))

MsgTick == Tick(MsgInstants) /\ UNCHANGED <<dispVars, notDisp>>

(***************************************************************************)
(* Specifications                                                          *)
(***************************************************************************)
\* The tables the dispatcher can find: any rows, none of them sent yet.
InitReminders ==
    \E ids \in SUBSET ReminderIds :
        reminders \in [ids -> ReminderRows]

\* The components at rest.
IdleDisp ==
    /\ reminders = << >>
    /\ cyc = [c \in Cycles |-> IdleFrame]
    /\ transmitted = [r \in ReminderIds |-> 0]

IdleGate ==
    /\ sigLast = NoSigRun
    /\ hookLast = NoRequest
    /\ inflight = << >>

IdleFlows ==
    /\ flows = [f \in FlowIds |-> IdleFlow]
    /\ calendar = << >>
    /\ eventsLog = << >>

IdleMsg ==
    /\ IdleFlows
    /\ users = << >>

InitDisp ==
    /\ now = 0
    /\ InitReminders
    /\ cyc = [c \in Cycles |-> IdleFrame]
    /\ transmitted = [r \in ReminderIds |-> 0]
    /\ InitRL
    /\ secretCfg = NoValue
    /\ IdleGate
    /\ IdleMsg

NextDisp ==
    \/ \E c \in Cycles : StartCycle(c)
    \/ \E c \in Cycles : LoopMark(c)
    \/ \E c \in Cycles : LoopSend(c)
    \/ Restart
    \/ DispTick

SpecDisp == InitDisp /\ [][NextDisp]_vars

InitRLSpec ==
    /\ now = 0
    /\ IdleDisp
    /\ InitRL
    /\ secretCfg = NoValue
    /\ IdleGate
    /\ IdleMsg

NextRL ==
    \/ \E k \in RLKeys : CheckRateLimit(k)
    \/ Sweep
    \/ RLTick

SpecRL == InitRLSpec /\ [][NextRL]_vars

\* One key, and an observer that watches one interval of the window's length.
NextWin ==
    \/ CheckRateLimit("10.0.0.1")
    \/ Sweep
    \/ RLTick
    \/ StartProbe("10.0.0.1")

SpecWin == InitRLSpec /\ [][NextWin]_vars

InitSig ==
    /\ now = 0
    /\ IdleDisp
    /\ InitRL
    /\ secretCfg \in Secrets \cup {NoValue}
    /\ IdleGate
    /\ IdleMsg

NextSig ==
    \E method \in {"GET", "POST"}, payload \in Payloads,
       signature \in Strings(MaxSigLen) \cup {NoSignature} :
        SignatureGate(method, payload, signature)

SpecSig == InitSig /\ [][NextSig]_vars

InitHook ==
    /\ now = 0
    /\ IdleDisp
    /\ InitRL
    /\ secretCfg \in Secrets \cup {NoValue}
    /\ IdleGate
    /\ IdleMsg

NextHook == \E req \in HookRequests : WebhookRequest(req)

SpecHook == InitHook /\ [][NextHook]_vars

\* The orchestrator starts with any accounts table: senders that wrote before,
\* with or without their Google tokens.
InitMsg ==
    /\ now = DateUTC(1, 12, 0)
    /\ IdleDisp
    /\ InitRL
    /\ secretCfg \in Secrets
    /\ IdleGate
    /\ IdleFlows
    /\ \E known \in SUBSET Senders : users \in [known -> UserRows]

MsgDeliveries == {Msg1, MsgAudio, MsgImage}

NextMsg ==
    \/ \E m \in MsgDeliveries : Deliver(m)
    \/ \E f \in FlowIds, m \in MsgDeliveries : FlowBegin(f, m)
    \/ \E f \in FlowIds : FlowIdentify(f)
    \/ \E f \in FlowIds : FlowCreateUser(f)
    \/ \E f \in FlowIds : FlowRoute(f)
    \/ \E f \in FlowIds : FlowExtract(f)
    \/ \E f \in FlowIds : FlowSchedule(f)
    \/ \E f \in FlowIds : FlowAlterResolve(f)
    \/ \E f \in FlowIds : FlowAlterUpdate(f)
    \/ \E f \in FlowIds : FlowAlterReminder(f)
    \/ \E f \in FlowIds : FlowCancelResolve(f)
    \/ \E f \in FlowIds : FlowCancelDelete(f)
    \/ \E f \in FlowIds : FlowCancelReminder(f)
    \/ MsgTick

SpecMsg == InitMsg /\ [][NextMsg]_vars

\* The orchestrator with a help request and a voice message, from known and unknown
\* senders, at a fixed instant.
OnbDeliveries == {MsgHelp, MsgAudio, MsgOther}

NextOnb ==
    \/ \E m \in OnbDeliveries : Deliver(m)
    \/ \E f \in FlowIds, m \in OnbDeliveries : FlowBegin(f, m)
    \/ \E f \in FlowIds : FlowIdentify(f)
    \/ \E f \in FlowIds : FlowCreateUser(f)
    \/ \E f \in FlowIds : FlowRoute(f)
    \/ \E f \in FlowIds : FlowExtract(f)
    \/ \E f \in FlowIds : FlowSchedule(f)
    \/ \E f \in FlowIds : FlowAlterResolve(f)
    \/ \E f \in FlowIds : FlowAlterUpdate(f)
    \/ \E f \in FlowIds : FlowAlterReminder(f)
    \/ \E f \in FlowIds : FlowCancelResolve(f)
    \/ \E f \in FlowIds : FlowCancelDelete(f)
    \/ \E f \in FlowIds : FlowCancelReminder(f)

SpecOnb == InitMsg /\ [][NextOnb]_vars

\* The flows of SpecOnb, any of which may raise an exception at any await.
NextCatch ==
    \/ NextOnb
    \/ \E f \in FlowIds : FlowThrow(f)

SpecCatch == InitMsg /\ [][NextCatch]_vars

\* A user who linked Google Calendar and scheduled one or two timed events before:
\* each has its calendar event, its log row and its unsent reminder.  The event of
\* 09:05 has its reminder due.  The webhook has handed over a backlog of messages
\* whose handlers have not run yet.
PriorMessage == "wamid.0"
PriorOwner   == "5511"
PriorItems   == {[g |-> "g1", e |-> "e1", r |-> "r1"], [g |-> "g2", e |-> "e2", r |-> "r2"]}
PriorStarts  == {DateUTC(1, 12, 5), DateUTC(1, 13, 0)}

EditDeliveries == {Msg1, MsgBulkToday}
EditFlows  == {"f1"}
EditCycles == {"c1"}
MaxBacklog == 2

Backlogs ==
    {bag \in [EditDeliveries -> 0..MaxBacklog] :
        bag[Msg1] + bag[MsgBulkToday] = MaxBacklog /\ bag[MsgBulkToday] <= 1}

InitEdit ==
    /\ now = DateUTC(1, 12, 0)
    /\ cyc = [c \in Cycles |-> IdleFrame]
    /\ transmitted = [r \in ReminderIds |-> 0]
    /\ InitRL
    /\ secretCfg \in Secrets
    /\ sigLast = NoSigRun
    /\ hookLast = NoRequest
    /\ \E bag \in Backlogs :
          inflight = [m \in {x \in EditDeliveries : bag[x] > 0} |-> bag[m]]
    /\ flows = [f \in FlowIds |-> IdleFlow]
    /\ users = [n \in {PriorOwner} |->
                  [access |-> TRUE, refresh |-> TRUE, onboarding_completed |-> TRUE]]
    /\ \E items \in SUBSET PriorItems :
       \E start \in [items -> PriorStarts] :
          /\ items # {}
          /\ ("g2" \in {i.g : i \in items} => "g1" \in {i.g : i \in items})
          /\ calendar = [g \in {i.g : i \in items} |->
                           LET i == CHOOSE x \in items : x.g = g IN
                           [owner |-> PriorOwner, start |-> start[i], all_day |-> FALSE,
                            deleted |-> FALSE, msg |-> PriorMessage]]
          /\ eventsLog = [e \in {i.e : i \in items} |->
                            LET i == CHOOSE x \in items : x.e = e IN
                            [user |-> PriorOwner, google_event_id |-> i.g,
                             data_inicio |-> start[i], status |-> "synced_google",
                             msg |-> PriorMessage]]
          /\ reminders = [r \in {i.r : i \in items} |->
                            LET i == CHOOSE x \in items : x.r = r IN
                            ReminderRow(PriorOwner, i.g, start[i],
                                        start[i] - REMINDER_LEAD_MS, PriorMessage)]

\* handleIncomingMessage returned: its frame is gone.
FlowReturn(f) ==
    /\ flows[f].pc = "done"
    /\ flows' = [flows EXCEPT ![f] = IdleFlow]
    /\ UNCHANGED <<notFlow, inflight, users, calendar, eventsLog, reminders>>

NextEdit ==
    \/ \E f \in EditFlows, m \in EditDeliveries : FlowBegin(f, m)
    \/ \E f \in EditFlows : FlowIdentify(f)
    \/ \E f \in EditFlows : FlowCreateUser(f)
    \/ \E f \in EditFlows : FlowRoute(f)
    \/ \E f \in EditFlows : FlowExtract(f)
    \/ \E f \in EditFlows : FlowSchedule(f)
    \/ \E f \in EditFlows : FlowAlterResolve(f)
    \/ \E f \in EditFlows : FlowAlterUpdate(f)
    \/ \E f \in EditFlows : FlowAlterReminder(f)
    \/ \E f \in EditFlows : FlowCancelResolve(f)
    \/ \E f \in EditFlows : FlowCancelDelete(f)
    \/ \E f \in EditFlows : FlowCancelReminder(f)
    \/ \E f \in EditFlows : FlowBulkDelete(f)
    \/ \E f \in EditFlows : FlowBulkReminder(f)
    \/ \E f \in EditFlows : FlowReturn(f)
    \/ \E c \in EditCycles : StartCycle(c)
    \/ \E c \in EditCycles : LoopMark(c)
    \/ \E c \in EditCycles : LoopSend(c)

SpecEdit == InitEdit /\ [][NextEdit]_vars

\* A user with a full agenda: MaxBulkEvents timed events, each created through the
\* assistant (calendar event and log row), the first `today` of them on day 1 and
\* the others on day 2, at different minutes.  The first two still have their
\* reminders.  A bulk cancel of that user was classified and is about to run.
MaxBulkEvents == 11
BulkSplits == {0, 1, MaxBulkEvents - 1, MaxBulkEvents}
BulkEvent(i) == "b" \o ToString(i)
BulkLog(i)   == "l" \o ToString(i)
BulkStart(i, today) == DateUTC(IF i <= today THEN 1 ELSE 2, 13, i)

InitBulk ==
    /\ now = DateUTC(1, 12, 0)
    /\ cyc = [c \in Cycles |-> IdleFrame]
    /\ transmitted = [r \in ReminderIds |-> 0]
    /\ InitRL
    /\ secretCfg \in Secrets
    /\ sigLast = NoSigRun
    /\ hookLast = NoRequest
    /\ inflight = << >>
    /\ users = [n \in {PriorOwner} |->
                  [access |-> TRUE, refresh |-> TRUE, onboarding_completed |-> TRUE]]
    /\ \E m \in {MsgBulkToday, MsgBulkTomorrow} :
          flows = [f \in FlowIds |->
                     IF f = "f1"
                     THEN [IdleFlow EXCEPT
                             !.pc = "cancel", !.msg = m,
                             !.user = [number |-> PriorOwner, access |-> TRUE,
                                       refresh |-> TRUE, onboarding_completed |-> TRUE]]
                     ELSE IdleFlow]
    /\ \E today \in BulkSplits :
          /\ calendar = [g \in {BulkEvent(i) : i \in 1..MaxBulkEvents} |->
                           LET i == CHOOSE j \in 1..MaxBulkEvents : BulkEvent(j) = g IN
                           [owner |-> PriorOwner, start |-> BulkStart(i, today),
                            all_day |-> FALSE, deleted |-> FALSE, msg |-> PriorMessage]]
          /\ eventsLog = [e \in {BulkLog(i) : i \in 1..MaxBulkEvents} |->
                            LET i == CHOOSE j \in 1..MaxBulkEvents : BulkLog(j) = e IN
                            [user |-> PriorOwner, google_event_id |-> BulkEvent(i),
                             data_inicio |-> BulkStart(i, today),
                             status |-> "synced_google", msg |-> PriorMessage]]
          /\ reminders = [r \in ReminderIds |->
                            LET i == IF r = "r1" THEN 1 ELSE 2 IN
                            ReminderRow(PriorOwner, BulkEvent(i), BulkStart(i, today),
                                        BulkStart(i, today) - REMINDER_LEAD_MS, PriorMessage)]

NextBulk ==
    \/ \E f \in EditFlows : FlowCancelResolve(f)
    \/ \E f \in EditFlows : FlowBulkDelete(f)
    \/ \E f \in EditFlows : FlowBulkReminder(f)

SpecBulk == InitBulk /\ [][NextBulk]_vars

(***************************************************************************)
(* The bulk-cancel patterns on the text itself                             *)
(***************************************************************************)
\* A text is a sequence of characters.  String.prototype.toLowerCase on the
\* characters used here.
toLowerCase(text) ==
    [i \in 1..Len(text) |->
        CASE text[i] = "H" -> "h" [] text[i] = "O" -> "o" [] text[i] = "J" -> "j"
          [] text[i] = "E" -> "e" [] OTHER -> text[i]]

\* \w of a regular expression without the u flag: ASCII letters, digits and "_".
\* The space and "ã" are not among them.
IsWordChar(c) == c \notin {" ", "ã"}

\* \b between text[i] and text[i + 1]: exactly one side is a word character; the
\* outside of the text counts as no word character.
IsBoundary(text, i) ==
    LET W(k) == k \in 1..Len(text) /\ IsWordChar(text[k])
    IN  W(i) # W(i + 1)

\* /\b(alt1|alt2|...)\b/.test(text)
TestWord(text, alternatives) ==
    \E a \in alternatives, i \in 0..Len(text) :
        /\ i + Len(a) <= Len(text)
        /\ SubSeq(text, i + 1, i + Len(a)) = a
        /\ IsBoundary(text, i)
        /\ IsBoundary(text, i + Len(a))

\* /\b(todos?|tudo)\b/, /\bhoje\b/, /\bamanh[aã]\b/
BatchWords    == {<<"t", "o", "d", "o">>, <<"t", "o", "d", "o", "s">>, <<"t", "u", "d", "o">>}
TodayWords    == {<<"h", "o", "j", "e">>}
TomorrowWords == {<<"a", "m", "a", "n", "h", "a">>, <<"a", "m", "a", "n", "h", "ã">>}

\* Lines 532-537: which of the three patterns the lower-cased text matches.
WordsFound(text) ==
    LET msgLower == toLowerCase(text) IN
    (IF TestWord(msgLower, BatchWords) THEN {"tudo"} ELSE {})
    \cup (IF TestWord(msgLower, TodayWords) THEN {"hoje"} ELSE {})
    \cup (IF TestWord(msgLower, TomorrowWords) THEN {"amanha"} ELSE {})

\* The texts: up to MaxTextWords words separated by one space.
MaxTextWords == 2
TextWords ==
    BatchWords \cup TodayWords \cup TomorrowWords
    \cup {<<"H", "O", "J", "E">>, <<"t", "o", "d", "a", "s">>}
RECURSIVE Texts(_)
Texts(n) ==
    IF n = 1 THEN TextWords
    ELSE Texts(n - 1) \cup {t \o <<" ">> \o w : t \in Texts(n - 1), w \in TextWords}

\* A user with two events, one today and one tomorrow, each with its reminder,
\* sends a cancel message; the classifier has answered "cancelar".
InitWords ==
    /\ now = DateUTC(1, 12, 0)
    /\ cyc = [c \in Cycles |-> IdleFrame]
    /\ transmitted = [r \in ReminderIds |-> 0]
    /\ InitRL
    /\ secretCfg \in Secrets
    /\ IdleGate
    /\ users = [n \in {PriorOwner} |->
                  [access |-> TRUE, refresh |-> TRUE, onboarding_completed |-> TRUE]]
    /\ calendar = [g \in EventIds |->
                     [owner |-> PriorOwner,
                      start |-> DateUTC(IF g = "g1" THEN 1 ELSE 2, 13, 0),
                      all_day |-> FALSE, deleted |-> FALSE, msg |-> PriorMessage]]
    /\ eventsLog = [e \in LogIds |->
                      LogRow(PriorOwner, IF e = "e1" THEN "g1" ELSE "g2",
                             DateUTC(IF e = "e1" THEN 1 ELSE 2, 13, 0), PriorMessage)]
    /\ reminders = [r \in ReminderIds |->
                      ReminderRow(PriorOwner, IF r = "r1" THEN "g1" ELSE "g2",
                                  DateUTC(IF r = "r1" THEN 1 ELSE 2, 13, 0),
                                  DateUTC(IF r = "r1" THEN 1 ELSE 2, 12, 50), PriorMessage)]
    /\ \E text \in Texts(MaxTextWords) :
          flows = [f \in FlowIds |->
                     IF f = "f1"
                     THEN [IdleFlow EXCEPT
                             !.pc = "cancel",
                             !.msg = [id |-> "wamid.9", from |-> PriorOwner, type |-> "text",
                                      words |-> WordsFound(text), text |-> text],
                             !.user = [number |-> PriorOwner, access |-> TRUE,
                                       refresh |-> TRUE, onboarding_completed |-> TRUE]]
                     ELSE IdleFlow]

NextWords ==
    \/ \E f \in EditFlows : FlowCancelResolve(f)
    \/ \E f \in EditFlows : FlowCancelDelete(f)
    \/ \E f \in EditFlows : FlowCancelReminder(f)
    \/ \E f \in EditFlows : FlowBulkDelete(f)
    \/ \E f \in EditFlows : FlowBulkReminder(f)

SpecWords == InitWords /\ [][NextWords]_vars

\* identifyEventToModify on its own: the candidate lists it may be given, the
\* empty one included, and every answer the model may give.
CandidateRows ==
    {[id |-> "e1", data_inicio |-> s, google_event_id |-> "g1"] : s \in EventStarts}
CandidateLists ==
    {<< >>} \cup {<<r>> : r \in CandidateRows}
            \cup {<<r, [id |-> "e2", data_inicio |-> DateUTC(2, 13, 5),
                        google_event_id |-> "g2"]>> : r \in CandidateRows}

InitResolve ==
    /\ now = DateUTC(1, 12, 0)
    /\ IdleDisp
    /\ InitRL
    /\ secretCfg \in Secrets
    /\ IdleGate
    /\ users = [n \in {PriorOwner} |->
                  [access |-> TRUE, refresh |-> TRUE, onboarding_completed |-> TRUE]]
    /\ calendar = << >>
    /\ eventsLog = << >>
    /\ \E events \in CandidateLists :
          flows = [f \in FlowIds |->
                     IF f = "f1"
                     THEN [IdleFlow EXCEPT
                             !.pc = "resolve", !.msg = Msg1, !.list = events,
                             !.user = [number |-> PriorOwner, access |-> TRUE,
                                       refresh |-> TRUE, onboarding_completed |-> TRUE]]
                     ELSE IdleFlow]

\* openai.ts 240-346: the call returns the model's JSON, with the google_event_id
\* of the matched row when the list has it, or no success.
IdentifyEvent(f) ==
    /\ flows[f].pc = "resolve"
    /\ \E resolverOk \in BOOLEAN :
       \E res \in IF resolverOk THEN ResolverAnswers(flows[f].list) ELSE {ResolverFailure} :
          flows' = [flows EXCEPT ![f] = [@ EXCEPT !.pc = "resolved", !.res = res]]
    /\ UNCHANGED <<notFlow, inflight, users, calendar, eventsLog, reminders>>

NextResolve == \E f \in EditFlows : IdentifyEvent(f)

SpecResolve == InitResolve /\ [][NextResolve]_vars

(***************************************************************************)
(* Properties                                                              *)
(***************************************************************************)

\* C1: under overlapping dispatcher cycles or a restart, every reminder is
\* transmitted at most once.
C1_AtMostOnce == \A r \in ReminderIds : transmitted[r] <= 1

\* C2: in every cycle a reminder is transmitted only after markReminderAsSent
\* returned success for it in that cycle; a reminder whose mark failed or that has
\* no recipient number is not transmitted in that cycle.
C2_MarkBeforeSend ==
    \A c \in Cycles :
        /\ cyc[c].sentTo \subseteq cyc[c].marked
        /\ cyc[c].sentTo \cap cyc[c].skipped = {}
        /\ cyc[c].pc = "send" => Snapshot(c).id \in cyc[c].marked
        /\ \A i \in 1..Len(cyc[c].list) :
              ~HasRecipient(cyc[c].list[i].row) => cyc[c].list[i].id \notin cyc[c].sentTo

\* A cycle that delivered one reminder and skipped another.
C2_Witness ==
    \E c \in Cycles : cyc[c].sentTo # {} /\ cyc[c].skipped # {}

\* C3: in one window the first 30 calls on a key are allowed, the k-th with
\* remaining = 30 - k, and every further call is rejected with remaining = 0; a
\* stored window has 1 <= count <= 30; a rejected call leaves the store unchanged.
C3_State ==
    /\ \A k \in DOMAIN rateLimitStore :
          /\ rateLimitStore[k].count >= 1
          /\ rateLimitStore[k].count <= RATE_LIMIT_MAX_REQUESTS
    /\ rlLast.op = "check" =>
          LET n == obs[rlLast.key].calls IN
          /\ rlLast.allowed = (n <= RATE_LIMIT_MAX_REQUESTS)
          /\ rlLast.remaining = IF n <= RATE_LIMIT_MAX_REQUESTS
                                THEN RATE_LIMIT_MAX_REQUESTS - n ELSE 0

C3_RejectKeeps ==
    (rlLast'.op = "check" /\ ~rlLast'.allowed) => rateLimitStore' = rateLimitStore

C3_Ceiling == []C3_State /\ [][C3_RejectKeeps]_vars

\* The 31st call of a window was rejected.
C3_Witness ==
    /\ rlLast.op = "check"
    /\ ~rlLast.allowed
    /\ rlLast.remaining = 0
    /\ obs[rlLast.key].calls = RATE_LIMIT_MAX_REQUESTS + 1

\* C4 as claimed: in every interval of 60 seconds, wherever it starts, at most 30
\* requests of a key are allowed.
C4_Sliding == probe.active => probe.count <= RATE_LIMIT_MAX_REQUESTS

\* C4 as amended: the window is fixed.  An interval of 60 seconds that starts
\* when the key has no unexpired window (so at a window's first request) admits at
\* most 30 requests; any interval of 60 seconds admits at most 60.
C4_FixedWindow ==
    probe.active =>
        /\ probe.anchored => probe.count <= RATE_LIMIT_MAX_REQUESTS
        /\ probe.count <= 2 * RATE_LIMIT_MAX_REQUESTS

\* An interval that starts with a window, filled to the ceiling, with a request
\* rejected in it.
C4_Witness ==
    /\ probe.active /\ probe.anchored
    /\ probe.count = RATE_LIMIT_MAX_REQUESTS
    /\ rlLast.op = "check" /\ ~rlLast.allowed
    /\ now - probe.start <= RATE_LIMIT_WINDOW_MS

\* C5: a call made more than 60 seconds after the first request of the key's
\* window is allowed and opens a fresh window (count = 1, remaining = 29), whatever
\* the count was and whether or not the sweep ran.
C5_Step ==
    (/\ rlLast'.op = "check"
     /\ obs[rlLast'.key].start >= 0
     /\ now - obs[rlLast'.key].start > RATE_LIMIT_WINDOW_MS)
    => /\ rlLast'.allowed
       /\ rlLast'.remaining = RATE_LIMIT_MAX_REQUESTS - 1
       /\ rlLast'.key \in DOMAIN rateLimitStore'
       /\ rateLimitStore'[rlLast'.key] = [count |-> 1, firstRequest |-> now]

C5_FreshWindow == [][C5_Step]_vars

\* A key whose previous window had a rejected call has just opened a new window.
C5_Witness ==
    /\ rlLast.op = "check" /\ rlLast.allowed
    /\ rlLast.remaining = RATE_LIMIT_MAX_REQUESTS - 1
    /\ obs[rlLast.key].prevFull
    /\ obs[rlLast.key].calls = 1

\* C7: with a secret configured, validateWhatsAppSignature returns a boolean for
\* every payload and claimed signature, true exactly when the signature (its
\* `sha256=` prefix removed) is the payload's HMAC, and never ends in an error.
C7_TotalBoolean ==
    (secretCfg # NoValue /\ sigLast.method # NoValue) =>
        /\ ~sigLast.threw
        /\ sigLast.value = SignatureMatches(secretCfg, sigLast.payload, sigLast.signature)

\* C9: with no secret configured the gate passes every POST, whatever signature
\* it claims.
C9_NoSecretPasses ==
    (secretCfg = NoValue /\ sigLast.method = "POST") =>
        /\ ~sigLast.threw
        /\ sigLast.value
        /\ sigLast.outcome = "next"

\* No secret; a POST with no signature, and one with a malformed one, passed.
C9_Witness ==
    /\ secretCfg = NoValue
    /\ sigLast.method = "POST"
    /\ sigLast.signature = <<"a", "P", "a">>
    /\ sigLast.outcome = "next"

\* C6: a message is handed to handleIncomingMessage only if the limiter allowed
\* the request's IP key and the message's sender key; a request rejected on the IP
\* key is answered 429 with remaining 0 and dispatches nothing; a message rejected
\* on its sender key is dropped and is never handed over later.
C6_State ==
    hookLast.method # NoValue =>
        /\ \A i \in 1..Len(hookLast.decisions) :
              hookLast.decisions[i].handed =>
                  hookLast.ipAllowed /\ hookLast.decisions[i].allowed
        /\ ~hookLast.ipAllowed =>
              /\ hookLast.status = 429
              /\ hookLast.remaining = 0
              /\ hookLast.decisions = << >>

\* The calls of handleIncomingMessage started by a step are exactly the messages of
\* that request that the limiter allowed.
C6_Step ==
    \A m \in {Msg1, Msg2} :
        Count(inflight', m) # Count(inflight, m) =>
            /\ hookLast'.ipAllowed
            /\ Count(inflight', m) - Count(inflight, m) =
                 Cardinality({i \in 1..Len(hookLast'.decisions) :
                                 /\ hookLast'.decisions[i].msg = m
                                 /\ hookLast'.decisions[i].allowed})

C6_GateBeforeOrchestrator == []C6_State /\ [][C6_Step]_vars

\* A delivery of two messages of one sender: the first was handed over, the second
\* was dropped on the sender key.
C6_Witness ==
    /\ hookLast.status = 200
    /\ Len(hookLast.decisions) = 2
    /\ hookLast.decisions[1].handed
    /\ ~hookLast.decisions[2].allowed /\ ~hookLast.decisions[2].handed

\* C8: with a secret configured, every POST that reaches the signature gate with a
\* signature that does not match its body is answered 401 and none of its messages
\* reaches the orchestrator.
C8_Rejected401 ==
    (/\ secretCfg # NoValue
     /\ hookLast.method = "POST"
     /\ hookLast.ipAllowed
     /\ ~hookLast.sigMatches) =>
        /\ hookLast.status = 401
        /\ hookLast.decisions = << >>

\* C10: message handling is idempotent per message id: however often a message is
\* delivered, it creates at most one calendar event, one event-log record and one
\* reminder.
C10_Idempotent ==
    \A id \in {m.id : m \in MsgDeliveries} :
        /\ Cardinality({g \in DOMAIN calendar : calendar[g].msg = id}) <= 1
        /\ Cardinality({e \in DOMAIN eventsLog : eventsLog[e].msg = id}) <= 1
        /\ Cardinality({r \in DOMAIN reminders : reminders[r].msg = id}) <= 1

\* The steps of handleAlterarEvento and of the non-bulk handleCancelarEvento.
EditPcs == {"alter", "alter_update", "alter_reminder",
            "cancel", "cancel_delete", "cancel_reminder"}
LastReply(f) == IF f.replies = << >> THEN NoValue ELSE f.replies[Len(f.replies)]

\* C11: a step of the Alter flow or of the non-bulk Cancel flow changes the calendar
\* or the reminders only when the resolver call succeeded with confidence high and a
\* reference; an answer of confidence low or none ends the flow with the candidate
\* list, a failed resolver call ends it with the generic error, both with the
\* calendar and the reminders untouched.
C11_Step ==
    \A f \in FlowIds :
        (flows[f].pc \in EditPcs /\ flows'[f] # flows[f]) =>
            LET res == IF flows[f].pc \in {"alter", "cancel"} THEN flows'[f].res
                                                             ELSE flows[f].res
            IN  /\ (calendar' # calendar \/ reminders' # reminders) =>
                      /\ res.asked /\ res.success
                      /\ res.confidence = "high"
                      /\ res.google_event_id # NoValue
                /\ (res.asked /\ ~res.success) =>
                      /\ flows'[f].pc = "done"
                      /\ LastReply(flows'[f]) = "error_process"
                      /\ calendar' = calendar /\ reminders' = reminders
                /\ (res.asked /\ res.success /\ res.confidence \in {"low", "none"}) =>
                      /\ flows'[f].pc = "done"
                      /\ LastReply(flows'[f]) = "candidates"
                      /\ calendar' = calendar /\ reminders' = reminders

C12_Step ==
    \A f \in FlowIds :
        (flows[f].pc = "alter_update" /\ flows'[f].pc = "alter_reminder") =>
            LET res == flows[f].res
                old == SpParts(calendar[flows[f].target].start)
                new == SpParts(calendar'[flows[f].target].start)
            IN  /\ new.day = IF res.new_date # << >> THEN res.new_date[1] ELSE old.day
                /\ new.hours = IF res.new_time # << >> THEN res.new_time[1] ELSE old.hours
                /\ new.minutes = IF res.new_time # << >> THEN res.new_time[2]
                                                         ELSE old.minutes

C12_KeepsUnsuppliedParts == [][C12_Step]_vars

\* C13: calendar creation is best-effort: when processScheduling ends for a timed
\* draft whose reminder time is still ahead and the calendar connector failed (no
\* event was created), the log row is written and, with it, the reminder is created.
C13_Step ==
    \A f \in FlowIds :
        (/\ flows[f].pc = "schedule_write" /\ flows'[f].pc = "done"
         /\ ~flows[f].draft.all_day
         /\ flows[f].draft.data_inicio - REMINDER_LEAD_MS > now
         /\ calendar' = calendar
         /\ eventsLog' # eventsLog) =>
            \E r \in DOMAIN reminders' \ DOMAIN reminders :
                reminders'[r].event_datetime = flows[f].draft.data_inicio

C13_CalendarBestEffort == [][C13_Step]_vars

\* C14: processScheduling creates a reminder only for a draft that is not all-day
\* and whose reminder time (start minus 10 minutes) is strictly later than now: for
\* an all-day draft and for a reminder time that has passed, the reminders stay as
\* they are.
C14_Step ==
    \A f \in FlowIds :
        (flows[f].pc = "schedule_write" /\ flows'[f] # flows[f]) =>
            LET draft == flows[f].draft IN
            /\ reminders' # reminders =>
                  /\ ~draft.all_day
                  /\ draft.data_inicio - REMINDER_LEAD_MS > now
            /\ (draft.all_day \/ draft.data_inicio - REMINDER_LEAD_MS <= now) =>
                  reminders' = reminders

C14_ReminderOnlyWhenTimedAndAhead == [][C14_Step]_vars

\* Two messages were scheduled: an all-day event, which has no reminder, and a timed
\* event, which has its reminder 10 minutes before its start.
C14_Witness ==
    \E g, h \in DOMAIN calendar :
        /\ calendar[g].all_day
        /\ \A r \in DOMAIN reminders : reminders[r].google_event_id # g
        /\ ~calendar[h].all_day
        /\ \E r \in DOMAIN reminders :
              /\ reminders[r].google_event_id = h
              /\ reminders[r].reminder_time = calendar[h].start - REMINDER_LEAD_MS

RemindersOf(rows, googleEventId) ==
    {r \in DOMAIN rows : rows[r].google_event_id = googleEventId}

\* C15: a successful calendar mutation is followed by the matching change of the
\* reminders.  After a successful reschedule whose reminder time is ahead, every
\* unsent reminder of the event carries the new start and the new start minus 10
\* minutes; when that time has passed, the event has no reminder left; after a
\* successful cancel the event has no reminder left.  When the calendar update or
\* delete fails, the reminders are as they were.
C15_Step ==
    \A f \in FlowIds :
        LET fl == flows[f] IN
        /\ (fl.pc = "alter_reminder" /\ flows'[f].pc = "done") =>
              IF fl.newStart - REMINDER_LEAD_MS > now
              THEN \A r \in RemindersOf(reminders', fl.target) :
                      ~reminders'[r].sent =>
                          /\ reminders'[r].event_datetime = fl.newStart
                          /\ reminders'[r].reminder_time = fl.newStart - REMINDER_LEAD_MS
              ELSE RemindersOf(reminders', fl.target) = {}
        /\ (fl.pc = "cancel_reminder" /\ flows'[f].pc = "done") =>
              RemindersOf(reminders', fl.target) = {}
        /\ (fl.pc \in {"alter_update", "cancel_delete"} /\ flows'[f].pc = "done") =>
              reminders' = reminders

C15_ReminderFollowsEvent == [][C15_Step]_vars

\* C16: whatever Schedule, Alter and Cancel flows and dispatcher cycles have run, an
\* external event reference has at most one unsent reminder.
C16_OneUnsentPerEvent ==
    \A g \in EventIds \cup {UnlistedEvent} :
        Cardinality({r \in RemindersOf(reminders, g) : ~reminders[r].sent}) <= 1

\* A dispatcher cycle sent the reminder of one event and an Alter moved the unsent
\* reminder of another.
C16_Witness ==
    \E r, q \in DOMAIN reminders :
        /\ reminders[r].sent /\ transmitted[r] = 1
        /\ ~reminders[q].sent
        /\ reminders[q].google_event_id # reminders[r].google_event_id
        /\ \E e \in DOMAIN eventsLog :
              /\ eventsLog[e].google_event_id = reminders[q].google_event_id
              /\ eventsLog[e].data_inicio # reminders[q].event_datetime

\* C17: in a bulk cancel every event of the list is attempted in turn.  A failed
\* calendar deletion leaves the reminders and the reported events as they are and
\* the loop goes on; a successful one is followed by the deletion of the event's
\* reminders and adds the event to the reported ones; the reply comes after the
\* last event and reports exactly the events added.
C17_Step ==
    \A f \in FlowIds :
        LET fl == flows[f]
            gl == flows'[f]
            MovedOn == \/ gl.pc = "bulk_delete" /\ gl.idx = fl.idx + 1
                                                /\ gl.idx <= Len(fl.list)
                       \/ gl.pc = "done" /\ fl.idx = Len(fl.list)
                                         /\ LastReply(gl) = "bulk_canceled"
        IN
        /\ (fl.pc = "bulk_delete" /\ gl # fl) =>
              /\ fl.idx \in 1..Len(fl.list)
              /\ IF calendar' = calendar
                 THEN /\ reminders' = reminders
                      /\ gl.canceled = fl.canceled
                      /\ MovedOn
                 ELSE /\ calendar'[fl.list[fl.idx].google_event_id].deleted
                      /\ gl.pc = "bulk_reminder"
                      /\ gl.idx = fl.idx
        /\ (fl.pc = "bulk_reminder" /\ gl # fl) =>
              /\ RemindersOf(reminders', fl.list[fl.idx].google_event_id) = {}
              /\ gl.canceled = Append(fl.canceled, fl.list[fl.idx].id)
              /\ MovedOn

C17_BulkCancel == [][C17_Step]_vars

\* The log rows of a user that carry an event reference and start on a Sao Paulo day.
LinkedOn(number, day) ==
    {e \in DOMAIN eventsLog :
        /\ eventsLog[e].user = number
        /\ eventsLog[e].google_event_id # NoValue
        /\ SpDate(eventsLog[e].data_inicio) = day}
\* The rows of the user that carry a reference and start before row e, from the
\* start of today on.
UpcomingBefore(number, e) ==
    {x \in DOMAIN eventsLog :
        /\ eventsLog[x].user = number
        /\ eventsLog[x].google_event_id # NoValue
        /\ eventsLog[x].data_inicio >= StartOfTodaySP(now)
        /\ eventsLog[x].data_inicio < eventsLog[e].data_inicio}
\* The rows a bulk cancel that read the events is about to attempt.
BulkListed(gl) ==
    IF gl.pc = "bulk_delete" THEN {gl.list[i].id : i \in 1..Len(gl.list)} ELSE {}
BulkRead(fl, gl) ==
    /\ fl.pc = "cancel" /\ gl # fl
    /\ isBatchCancel(fl.msg) /\ (isToday(fl.msg) \/ isTomorrow(fl.msg))
    /\ gl.pc = "bulk_delete" \/ LastReply(gl) = "none_that_day"

\* C18 as stated: a bulk cancel attempts a deletion for every event of the user
\* that carries a reference and starts on the target day, however many upcoming
\* events the user has.
C18_AllStep ==
    \A f \in FlowIds :
        BulkRead(flows[f], flows'[f]) =>
            LinkedOn(flows[f].user.number, TargetDate(flows[f].msg, now))
                \subseteq BulkListed(flows'[f])

C18_EveryEventOfTheDay == [][C18_AllStep]_vars

\* C18, amended: a bulk cancel attempts a deletion for exactly those events of the
\* target day that are among the user's 10 earliest events with a reference from
\* the start of today on, one attempt after the other until the last of them.
C18_BoundedStep ==
    \A f \in FlowIds :
        LET fl == flows[f]
            gl == flows'[f]
        IN
        /\ BulkRead(fl, gl) =>
              /\ \A e \in LinkedOn(fl.user.number, TargetDate(fl.msg, now)) :
                    e \in BulkListed(gl) <=>
                       Cardinality(UpcomingBefore(fl.user.number, e)) < RECENT_EVENTS_LIMIT
              /\ BulkListed(gl) \subseteq LinkedOn(fl.user.number, TargetDate(fl.msg, now))
              /\ gl.pc = "bulk_delete" => gl.idx = 1
        /\ (fl.pc \in {"bulk_delete", "bulk_reminder"} /\ gl # fl) =>
              /\ gl.pc = "done" => fl.idx = Len(fl.list)
              /\ gl.pc = "bulk_delete" => gl.idx = fl.idx + 1 /\ gl.list = fl.list
              /\ gl.pc = "bulk_reminder" => gl.idx = fl.idx /\ gl.list = fl.list

C18_EveryListedEventOfTheDay == [][C18_BoundedStep]_vars

\* The user has more events today than the list holds: the bulk cancel is at the
\* last of the 10 it attempts.
C18_Witness ==
    \E f \in FlowIds :
        /\ flows[f].pc = "bulk_delete"
        /\ Len(flows[f].list) = RECENT_EVENTS_LIMIT
        /\ flows[f].idx = RECENT_EVENTS_LIMIT
        /\ Cardinality(LinkedOn(flows[f].user.number, SpDate(now))) > RECENT_EVENTS_LIMIT

\* C19: a failure of the classifier does not end the message.  The flow goes on as
\* a scheduling request without a reply; with the user's credentials present the
\* extractor is asked, and when it finds a start the create flow runs to its end:
\* the calendar, log and reminder step is taken and the confirmation is sent.
C19_Step ==
    \A f \in FlowIds :
        LET fl == flows[f]
            gl == flows'[f]
        IN
        (gl.classifierFailed /\ gl # fl) =>
            /\ fl.pc = "route" => gl.pc = "schedule" /\ gl.replies = fl.replies
            /\ (fl.pc = "schedule" /\ HasCredentials(fl.user)) =>
                  \/ gl.pc = "schedule_write" /\ gl.draft.data_inicio \in EventStarts
                                              /\ gl.replies = fl.replies
                  \/ gl.pc = "done" /\ LastReply(gl) = "date_request"
            /\ fl.pc = "schedule_write" =>
                  /\ gl.pc = "done" /\ LastReply(gl) = "confirmation"
                  /\ \A e \in DOMAIN eventsLog' \ DOMAIN eventsLog :
                        /\ eventsLog'[e].msg = fl.msg.id
                        /\ eventsLog'[e].data_inicio = fl.draft.data_inicio
            /\ fl.pc \in {"route", "schedule", "schedule_write"}

C20_Step ==
    \A f \in FlowIds :
        LET fl == flows[f]
            gl == flows'[f]
        IN
        /\ (fl.pc = "schedule" /\ gl # fl /\ HasCredentials(fl.user)) =>
              \/ gl.pc = "schedule_write" /\ gl.draft.data_inicio \in EventStarts
              \/ /\ gl.pc = "done"
                 /\ gl.replies = Append(fl.replies, "date_request")
                 /\ calendar' = calendar /\ eventsLog' = eventsLog
                 /\ reminders' = reminders
        /\ (fl.pc = "schedule_write" /\ gl # fl) => fl.draft.data_inicio \in EventStarts

C20_NoStartAsksForDate == [][C20_Step]_vars

\* A scheduling request without a date was answered with the date prompt and left
\* no calendar event and no log row.
C20_Witness ==
    \E f \in FlowIds :
        /\ flows[f].pc = "done"
        /\ LastReply(flows[f]) = "date_request"
        /\ \A g \in DOMAIN calendar : calendar[g].msg # flows[f].msg.id
        /\ \A e \in DOMAIN eventsLog : eventsLog[e].msg # flows[f].msg.id
        /\ \A r \in DOMAIN reminders : reminders[r].msg # flows[f].msg.id

\* C21: in processScheduling a failure of the extractor call itself is answered with
\* the apology; the date prompt is sent only when the extractor found no date.
C21_Step ==
    \A f \in FlowIds :
        LET fl == flows[f]
            gl == flows'[f]
        IN
        (fl.pc = "schedule" /\ gl # fl) =>
            /\ gl.extractError = "upstream_error" =>
                  gl.pc = "done" /\ LastReply(gl) # "date_request"
            /\ (gl.pc = "done" /\ LastReply(gl) = "date_request") =>
                  gl.extractError = "no_date"

C21_UpstreamFailureApologises == [][C21_Step]_vars

\* C22: onboarding does not halt a message that needs no credentials: the flow of a
\* help request never ends at the prompt to connect Google Calendar, whatever the
\* sender's account.
C22_HelpNotHalted ==
    \A f \in FlowIds :
        (flows[f].pc = "done" /\ flows[f].msg = MsgHelp) =>
            LastReply(flows[f]) # "connect_google"

\* The flow knows its account and the account is new or lacks a calendar token.
LacksCredentials(f) ==
    /\ f.user.number # NoValue
    /\ f.isNewUser \/ ~f.user.access \/ ~f.user.refresh
ConnectPrompts == {"connect_google", "connect_google_link"}
\* The replies of the branches that need no calendar: help, greeting, out of scope,
\* and the failures that come before the classifier.
CredentialFreeReplies ==
    {"help", "greeting", "out_of_scope", "error_download", "error_transcribe", "unsupported"}

\* C23 as stated: every flow of an account that is new or lacks a calendar token
\* ends with a prompt to connect Google Calendar.
C23_AlwaysConnectPrompt ==
    \A f \in FlowIds :
        (flows[f].pc = "done" /\ LacksCredentials(flows[f])) =>
            LastReply(flows[f]) \in ConnectPrompts

\* C23, amended: a flow of an account that is new or lacks a calendar token never
\* asks the extractor, the resolver or the calendar and writes no calendar event,
\* log row or reminder; it ends with a prompt to connect Google Calendar, unless
\* its message is answered without the calendar (help, greeting, out of scope) or
\* fails before it is classified.
C23_Step ==
    \A f \in FlowIds :
        LET fl == flows[f]
            gl == flows'[f]
        IN
        (LacksCredentials(gl) /\ fl.pc # "idle" /\ gl # fl) =>
            /\ calendar' = calendar /\ eventsLog' = eventsLog /\ reminders' = reminders
            /\ gl.pc \in {"route", "schedule", "alter", "cancel", "done"}
            /\ ~gl.res.asked
            /\ gl.extractError = NoValue
            /\ gl.pc = "done" =>
                  /\ LastReply(gl) \in ConnectPrompts \cup CredentialFreeReplies
                  /\ fl.pc \in {"schedule", "alter", "cancel"} =>
                        LastReply(gl) = "connect_google_link"

C23_NoCredentialsNoCalendar == [][C23_Step]_vars

\* An account that completed onboarding and has no tokens asked for a change: the
\* flow ended with the link to connect Google Calendar, and nothing was written.
C23_Witness ==
    \E f \in FlowIds :
        /\ flows[f].pc = "done"
        /\ LacksCredentials(flows[f])
        /\ flows[f].user.onboarding_completed
        /\ LastReply(flows[f]) = "connect_google_link"
        /\ calendar = << >> /\ eventsLog = << >> /\ reminders = << >>


\* The flow is past the identification of its sender.
Identified(f) == f.pc \notin {"idle", "identify", "create", "done"}

\* C24: under any interleaving of the flows, two first contacts of one sender
\* included, an account is only ever created for a sender who has none, the
\* accounts that exist are left as they are, and every flow past identification
\* holds the account of the sender of its own message.
C24_Step ==
    /\ \A n \in DOMAIN users : n \in DOMAIN users' /\ users'[n] = users[n]
    /\ Cardinality(DOMAIN users') <= Cardinality(DOMAIN users) + 1
    /\ \A f \in FlowIds :
          LET fl == flows[f]
              gl == flows'[f]
          IN
          /\ (fl.pc = "create" /\ gl.isNewUser) =>
                /\ fl.msg.from \notin DOMAIN users
                /\ DOMAIN users' = DOMAIN users \cup {fl.msg.from}
          /\ (fl.pc = "create" /\ gl # fl /\ ~gl.isNewUser) => users' = users
          /\ Identified(gl) =>
                /\ gl.user.number = gl.msg.from
                /\ gl.user.number \in DOMAIN users'

C24_OneAccountPerSender == [][C24_Step]_vars

\* Two first contacts of one sender ran side by side: one created the account and
\* went on with it, the other was refused and apologised; a third flow of another
\* sender is not needed for this.
C24_Witness ==
    \E f, g \in FlowIds :
        /\ f # g
        /\ flows[f].pc # "idle" /\ flows[g].pc # "idle"
        /\ flows[f].msg.from = flows[g].msg.from
        /\ flows[f].isNewUser
        /\ flows[f].user.number = flows[f].msg.from
        /\ flows[g].pc = "done" /\ LastReply(flows[g]) = "error_register"

\* Two senders without account wrote at the same time: each flow holds the new
\* account of its own sender.
C24_WitnessTwoSenders ==
    \E f, g \in FlowIds :
        /\ Identified(flows[f]) /\ Identified(flows[g])
        /\ flows[f].isNewUser /\ flows[g].isNewUser
        /\ flows[f].user.number # flows[g].user.number


AudioErrors == {"error_download", "error_transcribe"}
SaidAudioError(f) == \E i \in 1..Len(f.replies) : f.replies[i] \in AudioErrors

\* C25: when the audio of a message cannot be downloaded or transcribed, the flow
\* ends there with the error reply as its only and last word: the classifier is
\* not asked, no branch is entered, the calendar, the event log and the reminders
\* stay as they are, and the ended flow takes no further step.
C25_Step ==
    \A f \in FlowIds :
        LET fl == flows[f]
            gl == flows'[f]
        IN
        /\ (fl.pc = "route" /\ gl # fl /\ SaidAudioError(gl)) =>
              /\ gl.pc = "done"
              /\ gl.msg.type = "audio"
              /\ gl.replies = Append(fl.replies, LastReply(gl))
              /\ LastReply(gl) \in AudioErrors
              /\ ~gl.classifierFailed /\ ~gl.res.asked /\ gl.extractError = NoValue
              /\ calendar' = calendar /\ eventsLog' = eventsLog /\ reminders' = reminders
        /\ (fl.pc = "done" /\ SaidAudioError(fl)) => gl = fl

C25_AudioFailureEndsFlow == [][C25_Step]_vars

\* An account with Google linked sent an audio that could not be transcribed.
C25_Witness ==
    \E f \in FlowIds :
        /\ flows[f].pc = "done"
        /\ flows[f].msg = MsgAudio
        /\ flows[f].user.access /\ flows[f].user.refresh
        /\ flows[f].replies = <<"error_transcribe">>


\* The reminders a cycle has dealt with in this run: marked, or left at a `continue`.
Handled(fr) == fr.marked \cup fr.skipped
\* The loop body of the cycle failed in this step: it left at a `continue` (no
\* recipient, or the mark was refused), or the transmission raised an error.
BodyFailed(fr, gr) ==
    \/ fr.pc = "loop" /\ fr.list[fr.idx].id \in gr.skipped
    \/ fr.pc = "send" /\ fr.list[fr.idx].id \notin gr.sentTo

\* C26: within one dispatcher cycle a failure on one reminder (no recipient, the
\* mark refused, an error while sending) leads on to the next reminder the cycle
\* read, and a cycle that runs to its end has dealt with every reminder it read.
C26_Step ==
    \A c \in Cycles :
        LET fr == cyc[c]
            gr == cyc'[c]
        IN
        (fr.pc \in {"loop", "send"} /\ gr # fr /\ Handled(gr) # {}) =>
            /\ gr.pc = "idle" =>
                  \A i \in 1..Len(fr.list) : fr.list[i].id \in Handled(gr)
            /\ gr.pc # "idle" =>
                  /\ gr.list = fr.list
                  /\ \A i \in 1..(gr.idx - 1) : gr.list[i].id \in Handled(gr)
            /\ (BodyFailed(fr, gr) /\ fr.idx < Len(fr.list)) =>
                  /\ gr.pc = "loop"
                  /\ gr.idx = fr.idx + 1

C26_FailureDoesNotStopCycle == [][C26_Step]_vars

\* The first reminder of a cycle failed and the cycle is transmitting the second.
C26_Witness ==
    \E c \in Cycles :
        /\ cyc[c].pc = "send"
        /\ cyc[c].idx = 2
        /\ cyc[c].list[1].id \in cyc[c].skipped \/ cyc[c].list[1].id \notin cyc[c].sentTo


\* Some cycle marked reminder r as sent and its transmission of r failed.
MarkedNotDelivered(r) ==
    \E c \in Cycles :
        /\ r \in cyc[c].marked
        /\ r \notin cyc[c].sentTo
        /\ ~(cyc[c].pc = "send" /\ Snapshot(c).id = r)

\* The part of C27 about the store: such a reminder stays sent and no cycle that
\* starts afterwards reads it.
C27_StoreStep ==
    \A r \in DOMAIN reminders :
        MarkedNotDelivered(r) =>
            /\ reminders[r].sent /\ reminders'[r].sent
            /\ \A c \in Cycles :
                  (cyc[c].pc = "idle" /\ cyc'[c].pc = "loop") =>
                      \A i \in 1..Len(cyc'[c].list) : cyc'[c].list[i].id # r

C27_StaysSentAndUnselected == [][C27_StoreStep]_vars

\* C27: a reminder that was marked sent and whose transmission then failed stays
\* sent, is not read by any cycle that starts later, and is never transmitted
\* afterwards.
C27_Step ==
    /\ C27_StoreStep
    /\ \A r \in DOMAIN reminders :
          MarkedNotDelivered(r) => transmitted'[r] = transmitted[r]

C27_NoRetransmission == [][C27_Step]_vars


\* Flow f took a step.
FlowMoved(f) ==
    \/ flows'[f].pc # flows[f].pc
    \/ flows[f].pc # "idle" /\ flows'[f] # flows[f]
FailureReplies ==
    {"error_register", "error_download", "error_transcribe", "error_unexpected"}

\* C28: a POST that passes the gate is answered 200 in the step that hands its
\* messages over, and no flow runs in that step; afterwards no step of a flow,
\* failing ones and exceptions included, changes the acknowledgement, touches
\* another flow or the messages still waiting.
C28_Step ==
    /\ BagSize(inflight') > BagSize(inflight) =>
          /\ hookLast'.method = "POST" /\ hookLast'.status = 200
          /\ flows' = flows
    /\ \A f \in FlowIds :
          FlowMoved(f) =>
              /\ hookLast' = hookLast
              /\ rateLimitStore' = rateLimitStore
              /\ \A g \in FlowIds \ {f} : ~FlowMoved(g)
              /\ IF flows[f].pc = "idle"
                 THEN BagSize(inflight') = BagSize(inflight) - 1
                 ELSE inflight' = inflight
              /\ (flows'[f].pc = "done" /\ LastReply(flows'[f]) \in FailureReplies) =>
                    /\ users' = users /\ calendar' = calendar
                    /\ eventsLog' = eventsLog /\ reminders' = reminders

C28_AckBeforeFlows == [][C28_Step]_vars

\* Two messages were acknowledged and handed over; the flow of one ended in the
\* catch block while the other goes on.
C28_Witness ==
    \E f, g \in FlowIds :
        /\ hookLast.method = "POST" /\ hookLast.status = 200
        /\ flows[f].pc = "done" /\ LastReply(flows[f]) = "error_unexpected"
        /\ flows[g].pc \notin {"idle", "done"}


\* C29: for an empty candidate list identifyEventToModify answers confidence
\* 'none' and no matched event, whatever the model said.
C29_EmptyListGivesNone ==
    \A f \in FlowIds :
        (flows[f].pc = "resolved" /\ flows[f].list = << >> /\ flows[f].res.success) =>
            /\ flows[f].res.confidence = "none"
            /\ flows[f].res.google_event_id = NoValue


\* C30: a reminder that is sent stays sent, and no step, a reschedule of its event
\* included, changes its fire instant or its event instant (or anything else of
\* it) for as long as the row exists.
C30_Step ==
    \A r \in DOMAIN reminders :
        (reminders[r].sent /\ r \in DOMAIN reminders') =>
            /\ reminders'[r].sent
            /\ reminders'[r].reminder_time = reminders[r].reminder_time
            /\ reminders'[r].event_datetime = reminders[r].event_datetime
            /\ reminders'[r] = reminders[r]

C30_SentIsFrozen == [][C30_Step]_vars

\* The dispatcher sent the reminder of an event and an Alter then moved the event:
\* the calendar has the new start, the sent reminder still has the old instants.
C30_Witness ==
    \E r \in DOMAIN reminders, f \in FlowIds :
        /\ reminders[r].sent
        /\ flows[f].pc = "done" /\ LastReply(flows[f]) = "altered"
        /\ reminders[r].google_event_id \in DOMAIN calendar
        /\ ~calendar[reminders[r].google_event_id].deleted
        /\ calendar[reminders[r].google_event_id].start # reminders[r].event_datetime
        /\ calendar[reminders[r].google_event_id].start - REMINDER_LEAD_MS > now


\* C31 as stated: every processScheduling run that has a start leaves exactly one
\* new events_log row behind.
C31_ExactlyOneStep ==
    \A f \in FlowIds :
        (/\ flows[f].pc = "schedule_write" /\ flows'[f].pc = "done"
         /\ LogIds \ DOMAIN eventsLog # {}) =>
            Cardinality(DOMAIN eventsLog' \ DOMAIN eventsLog) = 1

C31_Step ==
    LET new == DOMAIN eventsLog' \ DOMAIN eventsLog
        made == DOMAIN calendar' \ DOMAIN calendar
    IN
    /\ \A e \in DOMAIN eventsLog : e \in DOMAIN eventsLog' /\ eventsLog'[e] = eventsLog[e]
    /\ Cardinality(new) <= 1
    /\ \A e \in new :
          /\ \E f \in FlowIds :
                /\ flows[f].pc = "schedule_write" /\ flows'[f].pc = "done"
                /\ eventsLog'[e].data_inicio = flows[f].draft.data_inicio
                /\ eventsLog'[e].msg = flows[f].msg.id
          /\ IF made = {} THEN eventsLog'[e].google_event_id = NoValue
                          ELSE eventsLog'[e].google_event_id \in made
          /\ eventsLog'[e].status = "synced_google" <=> eventsLog'[e].google_event_id # NoValue
          /\ eventsLog'[e].status = "created" <=> eventsLog'[e].google_event_id = NoValue

PcRank(pc) ==
    CASE pc = "identify" -> 60
      [] pc = "create" -> 59
      [] pc = "route" -> 58
      [] pc \in {"schedule", "alter", "cancel"} -> 57
      [] pc \in {"schedule_write", "alter_update", "cancel_delete"} -> 56
      [] pc \in {"alter_reminder", "cancel_reminder"} -> 55
      [] OTHER -> 0
Rank(f) ==
    IF f.pc = "bulk_delete" THEN 2 * (Len(f.list) - f.idx) + 2
    ELSE IF f.pc = "bulk_reminder" THEN 2 * (Len(f.list) - f.idx) + 1
    ELSE PcRank(f.pc)

\* C32: every step of a running flow brings it strictly closer to its end (so a
\* flow whose calls all return ends after finitely many steps), and a flow that
\* ends has sent at least one reply in that run, on failure branches as well.
C32_Step ==
    \A f \in FlowIds :
        (flows[f].pc \notin {"idle", "done"} /\ flows'[f] # flows[f]) =>
            /\ Rank(flows'[f]) < Rank(flows[f])
            /\ Rank(flows'[f]) >= 0
            /\ Len(flows'[f].replies) >= Len(flows[f].replies)
            /\ flows'[f].pc = "done" => Len(flows'[f].replies) >= 1

C33_FireIsStartMinusLead ==
    \A r \in DOMAIN reminders :
        reminders[r].reminder_time = reminders[r].event_datetime - REMINDER_LEAD_MS

\* One reminder was moved by an Alter and another was created by a Schedule.
C33_Witness ==
    \E r, q \in DOMAIN reminders :
        /\ reminders[r].msg = PriorMessage
        /\ reminders[r].event_datetime \notin PriorStarts
        /\ reminders[q].msg = Msg1.id


\* The text has the word as one of its space-separated words.
HasWord(text, words) ==
    \E w \in words, i \in 0..Len(text) :
        /\ i + Len(w) <= Len(text)
        /\ SubSeq(text, i + 1, i + Len(w)) = w
        /\ i = 0 \/ text[i] = " "
        /\ i + Len(w) = Len(text) \/ text[i + Len(w) + 1] = " "
\* A bulk cancel in the words of the claim: tudo, todo or todos together with
\* hoje, amanhã or amanha.
SaysBulk(text) ==
    /\ HasWord(text, BatchWords)
    /\ HasWord(text, TodayWords \cup TomorrowWords)

\* C34: a cancel message that has 'tudo', 'todo' or 'todos' together with 'hoje',
\* 'amanhã' or 'amanha' is handled as a bulk cancel: the resolver is not asked and
\* the single-event deletion is not entered.
C34_BulkRecognised ==
    \A f \in FlowIds :
        (flows[f].pc # "idle" /\ SaysBulk(flows[f].msg.text)) =>
            /\ ~flows[f].res.asked
            /\ flows[f].pc \notin {"cancel_delete", "cancel_reminder"}


\* C35: once a Cancel has deleted an event from the calendar and its reminders
\* from the store, no dispatcher cycle transmits a reminder of that event, a cycle
\* that read the due reminders before the deletion included.
C35_Step ==
    \A c \in Cycles :
        (/\ cyc[c].pc = "send"
         /\ transmitted'[Snapshot(c).id] > transmitted[Snapshot(c).id]) =>
            LET g == Snapshot(c).row.google_event_id IN
            ~(/\ g \in DOMAIN calendar
              /\ calendar[g].deleted
              /\ RemindersOf(reminders, g) = {})

C35_NoReminderAfterCancel == [][C35_Step]_vars


\* C36: whatever Alters the event went through before, the start an Alter is about
\* to write takes the components the resolver left out from the start the event
\* has now: the time of day when only a date is supplied, the date when only a
\* time is supplied.
C36_RecomposesFromCurrentStart ==
    \A f \in FlowIds :
        (flows[f].pc = "alter_update" /\ flows[f].target \in DOMAIN calendar) =>
            LET cur == SpParts(calendar[flows[f].target].start)
                new == SpParts(flows[f].newStart)
            IN  /\ flows[f].res.new_time = << >> =>
                      new.hours = cur.hours /\ new.minutes = cur.minutes
                /\ flows[f].res.new_date = << >> => new.day = cur.day


\* C37: the candidates a flow has just fetched for an Alter or a Cancel hold no
\* event that an earlier Cancel deleted.
C37_CanceledNotOffered ==
    \A f \in FlowIds :
        (\/ flows[f].pc \in {"alter_update", "cancel_delete"}
         \/ flows[f].pc = "bulk_delete" /\ flows[f].idx = 1) =>
            \A i \in 1..Len(flows[f].list) :
                LET g == flows[f].list[i].google_event_id IN
                g \in DOMAIN calendar => ~calendar[g].deleted


\* C38: a Schedule flow sends the success reaction and the confirmation that the
\* event was saved in the calendar only in a step that created the calendar event.
C38_Step ==
    \A f \in FlowIds :
        (/\ flows[f].pc = "schedule_write"
         /\ flows'[f].pc = "done"
         /\ LastReply(flows'[f]) = "confirmation") =>
            DOMAIN calendar' # DOMAIN calendar

C38_ConfirmsOnlySavedEvents == [][C38_Step]_vars


\* The references of the candidate list a flow fetched.
Listed(fl) == {fl.list[i].google_event_id : i \in 1..Len(fl.list)}

\* C39: the reference an Alter or a Cancel flow is about to update or delete, in
\* the calendar and in the reminders, is one of the candidate list the flow fetched,
\* whatever the resolver answered.
C39_TargetsListed ==
    \A f \in FlowIds :
        flows[f].pc \in {"alter_update", "alter_reminder", "cancel_delete", "cancel_reminder"} =>
            flows[f].target \in Listed(flows[f])


\* The table of a run in which the sweep never fires, kept by the observer: a key
\* has an entry from its first call on, the entry's window is the observer's, and
\* its count is the calls made in the window up to the ceiling.
NoSweepStore(o) ==
    [k \in {x \in RLKeys : o[x].start >= 0} |->
        [count |-> IF o[k].calls < RATE_LIMIT_MAX_REQUESTS THEN o[k].calls
                   ELSE RATE_LIMIT_MAX_REQUESTS,
         firstRequest |-> o[k].start]]

\* C40: a sweep deletes only entries whose window has elapsed and leaves the others
\* as they are, and every checkRateLimit call answers the allowed and remaining it
\* answers on the table of the run without sweeps, which the call takes to the
\* table checkRateLimit computes from it.
C40_Step ==
    /\ rlLast'.op = "sweep" =>
          \A k \in DOMAIN rateLimitStore :
             IF k \in DOMAIN rateLimitStore'
             THEN rateLimitStore'[k] = rateLimitStore[k]
             ELSE now - rateLimitStore[k].firstRequest > RATE_LIMIT_WINDOW_MS
    /\ rlLast'.op # "check" => NoSweepStore(obs') = NoSweepStore(obs)
    /\ rlLast'.op = "check" =>
          LET res == checkRateLimit(NoSweepStore(obs), rlLast'.key, now) IN
          /\ NoSweepStore(obs') = res.store
          /\ rlLast'.allowed = res.allowed
          /\ rlLast'.remaining = res.remaining

C40_SweepChangesNoDecision == [][C40_Step]_vars

\* A request is refused at the ceiling after a sweep deleted the other key's
\* elapsed window.
C40_Witness ==
    /\ rlLast.op = "check" /\ rlLast.key = "10.0.0.1" /\ ~rlLast.allowed
    /\ obs["whatsapp:5511"].start >= 0
    /\ "whatsapp:5511" \notin DOMAIN rateLimitStore

====
